---- MODULE Spec2Model ----
(***************************************************************************)
(* Asset-management front-end (Vue views over a hosted Postgres store).    *)
(* The model covers the sequential asset-code generator, the asset save    *)
(* flow with its field-level change tracker, the unique constraints of     *)
(* the store, and the dashboard's point-in-time status reconstruction.     *)
(*                                                                         *)
(* Text is a sequence of one-character strings, so that prefix matching,   *)
(* the regular expression, parseInt, String() and padStart are computed    *)
(* character by character.                                                 *)
(***************************************************************************)
EXTENDS Integers, Sequences, FiniteSets, TLC

VARIABLES
    now,            \* wall clock of the store (NOW()) and of the browsers
    assets,         \* table assets: sequence of rows in insertion order
    asset_history,  \* table asset_history: sequence of rows in insertion order
    categories,     \* table categories
    staff,          \* table staff
    licenses,       \* table licenses
    staff_history,  \* table staff_history: sequence of rows in insertion order
    locations,      \* table locations
    nextId,         \* BIGSERIAL counters, one per table
    ui,             \* per browser tab: state of the Assets view
    other,          \* per browser tab: outcome of the Staff / Categories / Licenses forms
    monthlyData,    \* Dashboard: the six buckets of the last fetchMonthlyData
    ghost           \* observation of the last completed operation (not program state)

vars == <<now, assets, asset_history, categories, staff, licenses, staff_history,
          locations, nextId, ui, other, monthlyData, ghost>>

(***************************************************************************)
(* Bounds of the model.                                                    *)
(***************************************************************************)
MaxAssets == 3
MaxHistory == 6
MaxSeq == 9
MaxPending == 2
NumClients == 2
MaxForms == 1

Clients == 1..NumClients

(***************************************************************************)
(* Text helpers.                                                           *)
(***************************************************************************)
Digits == <<"0", "1", "2", "3", "4", "5", "6", "7", "8", "9">>

IsDigit(ch) == \E i \in 1..10 : Digits[i] = ch

DigitVal(ch) == (CHOOSE i \in 1..10 : Digits[i] = ch) - 1

AllDigits(s) == \A i \in 1..Len(s) : IsDigit(s[i])

RECURSIVE parseInt(_)
parseInt(s) ==
    IF Len(s) = 0 THEN 0
    ELSE 10 * parseInt(SubSeq(s, 1, Len(s) - 1)) + DigitVal(s[Len(s)])

RECURSIVE String(_)
String(n) ==
    IF n < 10 THEN <<Digits[n + 1]>>
    ELSE String(n \div 10) \o <<Digits[(n % 10) + 1]>>

RECURSIVE padStart(_, _, _)
padStart(s, width, ch) ==
    IF Len(s) >= width THEN s ELSE padStart(<<ch>> \o s, width, ch)

StartsWith(s, p) ==
    /\ Len(s) >= Len(p)
    /\ SubSeq(s, 1, Len(p)) = p

IsSpace(ch) == ch = " "

RECURSIVE trimStart(_)
trimStart(s) ==
    IF Len(s) > 0 /\ IsSpace(s[1]) THEN trimStart(Tail(s)) ELSE s

RECURSIVE trimEnd(_)
trimEnd(s) ==
    IF Len(s) > 0 /\ IsSpace(s[Len(s)]) THEN trimEnd(SubSeq(s, 1, Len(s) - 1)) ELSE s

trim(s) == trimEnd(trimStart(s))

UpperOf(ch) ==
    CASE ch = "a" -> "A"
      [] ch = "b" -> "B"
      [] OTHER -> ch

toUpperCase(s) == [i \in 1..Len(s) |-> UpperOf(s[i])]

(***************************************************************************)
(* new RegExp(`${prefix}(\\d+)$`): the prefix is interpolated as written,  *)
(* so a "+" in it is the quantifier "one or more of the character before". *)
(* An atom is a character with a flag saying whether "+" follows it.       *)
(***************************************************************************)
RECURSIVE regexAtoms(_)
regexAtoms(p) ==
    IF Len(p) = 0 THEN <<>>
    ELSE IF Len(p) >= 2 /\ p[2] = "+"
         THEN <<[ch |-> p[1], plus |-> TRUE]>> \o regexAtoms(SubSeq(p, 3, Len(p)))
         ELSE <<[ch |-> p[1], plus |-> FALSE]>> \o regexAtoms(Tail(p))

\* The positions j at which a match of the atoms that starts after position i can end.
RECURSIVE regexEnds(_, _, _)
regexEnds(atoms, s, i) ==
    IF Len(atoms) = 0 THEN {i}
    ELSE LET a == atoms[1]
             runs == IF a.plus
                     THEN {k \in (i + 1)..Len(s) : \A m \in (i + 1)..k : s[m] = a.ch}
                     ELSE {k \in {i + 1} : k <= Len(s) /\ s[k] = a.ch}
         IN  UNION {regexEnds(Tail(atoms), s, k) : k \in runs}

\* The ends j of a match of the prefix, anywhere in s (the expression has no ^),
\* after which only digits, and at least one, follow up to the end of s.
regexCaptureStarts(prefix, s) ==
    {j \in UNION {regexEnds(regexAtoms(prefix), s, i) : i \in 0..Len(s)} :
        /\ j < Len(s)
        /\ AllDigits(SubSeq(s, j + 1, Len(s)))}

regexMatches(prefix, s) == regexCaptureStarts(prefix, s) # {}

\* match[1]: the digits of the leftmost-longest capture.
regexGroup(prefix, s) ==
    LET j == CHOOSE k \in regexCaptureStarts(prefix, s) :
                 \A m \in regexCaptureStarts(prefix, s) : k <= m
    IN  SubSeq(s, j + 1, Len(s))

(***************************************************************************)
(* generateAssetName, the part after the query returns.                    *)
(***************************************************************************)
assetPrefix(code) == <<"K", "L", "S", "B", "-">> \o code \o <<"-">>

\* .like('asset_name', `${prefix}%`) on the rows of the table
likePrefix(rows, prefix) ==
    {rows[i].asset_name : i \in {k \in 1..Len(rows) : StartsWith(rows[k].asset_name, prefix)}}

SetMax(S) == IF S = {} THEN 0 ELSE CHOOSE x \in S : \A y \in S : y <= x

maxNumOf(prefix, names) ==
    SetMax({parseInt(regexGroup(prefix, nm)) : nm \in {x \in names : regexMatches(prefix, x)}})

nextAssetName(code, names) ==
    assetPrefix(code) \o padStart(String(maxNumOf(assetPrefix(code), names) + 1), 3, "0")

(***************************************************************************)
(* get_next_asset_name of schema.sql, the function of the store.           *)
(***************************************************************************)
\* what the function raises when a CAST fails
InvalidInteger == <<"invalid input syntax for type integer">>

\* CAST(text AS INTEGER) accepts the decimal digits
castable(s) == Len(s) > 0 /\ AllDigits(s)

\* LPAD(s, n, fill): padded on the left up to n characters, cut to the first n
\* when s is longer
LPAD(s, n, fill) == IF Len(s) >= n THEN SubSeq(s, 1, n) ELSE padStart(s, n, fill)

\* SUBSTRING(asset_name FROM LENGTH(prefix) + 1)
substringFrom(s, from) == SubSeq(s, from, Len(s))

get_next_asset_name(category_code, rows) ==
    LET prefix == <<"K", "L", "S", "B", "-">> \o category_code \o <<"-">>
        tails == {substringFrom(nm, Len(prefix) + 1) : nm \in likePrefix(rows, prefix)}
        max_num == SetMax({parseInt(t) : t \in {x \in tails : castable(x)}})
        next_num == max_num + 1
    IN  IF \E t \in tails : ~castable(t) THEN InvalidInteger
        ELSE prefix \o LPAD(String(next_num), 3, "0")

(***************************************************************************)
(* Values of the store.                                                    *)
(***************************************************************************)
NoId == 0                  \* null / '' of an id: `x ? Number(x) : null`
Null == <<"null">>         \* null of a text column (no text is made of this one token)
NoDate == -1               \* null of a date column, '' of a date input
NoUser == "none"           \* supabase.auth.getUser() without a session

statusOptions == <<"active", "maintenance", "inactive", "disposed">>
Statuses == {statusOptions[i] : i \in 1..Len(statusOptions)}

\* asset_history.old_value / new_value are TEXT holding a status, a looked-up
\* name, a date or an asset name; one record shape carries them all.
VNull == [k |-> "null", s |-> "", q |-> <<>>, d |-> NoDate]
VStr(x) == [k |-> "str", s |-> x, q |-> <<>>, d |-> NoDate]
VText(x) == IF x = Null THEN VNull ELSE [k |-> "text", s |-> "", q |-> x, d |-> NoDate]
VDate(x) == IF x = NoDate THEN VNull ELSE [k |-> "date", s |-> "", q |-> <<>>, d |-> x]

RECURSIVE SelectRows(_, _)
SelectRows(rows, keep) ==
    IF Len(rows) = 0 THEN <<>>
    ELSE (IF keep[1] THEN <<rows[1]>> ELSE <<>>)
         \o SelectRows(Tail(rows), Tail(keep))

HasId(rows, id) == \E i \in 1..Len(rows) : rows[i].id = id

RowById(rows, id) == rows[CHOOSE i \in 1..Len(rows) : rows[i].id = id]

(***************************************************************************)
(* The unique constraints of schema.sql and the error the store returns.   *)
(* Postgres checks the unique indexes of a table in the order they were    *)
(* created and reports the first one violated.                             *)
(***************************************************************************)
\* a store without the unique index on assets.asset_name
assetsViolation_withoutNameKey(rows, p, selfId) ==
    IF /\ p.serial_number # Null
       /\ \E i \in 1..Len(rows) :
              rows[i].id # selfId /\ rows[i].serial_number = p.serial_number
    THEN "assets_serial_number_key"
    ELSE "none"

assetsViolation(rows, p, selfId) ==
    IF \E i \in 1..Len(rows) : rows[i].id # selfId /\ rows[i].asset_name = p.asset_name
    THEN "assets_asset_name_key"
    ELSE IF /\ p.serial_number # Null
            /\ \E i \in 1..Len(rows) :
                   rows[i].id # selfId /\ rows[i].serial_number = p.serial_number
    THEN "assets_serial_number_key"
    ELSE "none"

staffViolation(rows, p, selfId) ==
    IF \E i \in 1..Len(rows) : rows[i].id # selfId /\ rows[i].staff_id = p.staff_id
    THEN "staff_staff_id_key" ELSE "none"

categoriesViolation(rows, p, selfId) ==
    IF \E i \in 1..Len(rows) : rows[i].id # selfId /\ rows[i].code = p.code
    THEN "categories_code_key" ELSE "none"

licensesViolation(rows, p, selfId) ==
    IF \E i \in 1..Len(rows) : rows[i].id # selfId /\ rows[i].license_key = p.license_key
    THEN "licenses_license_key_key" ELSE "none"

\* The fragments the catch blocks look for with message.includes(...), for the
\* message 'duplicate key value violates unique constraint "<constraint>"'.
messageFragments(constraint) ==
    {"duplicate"}
    \cup (IF constraint = "assets_asset_name_key" THEN {"asset_name"} ELSE {})
    \cup (IF constraint = "assets_serial_number_key" THEN {"serial_number"} ELSE {})

uniqueError(constraint) ==
    [code |-> "23505", message |-> "duplicate key value", has |-> messageFragments(constraint)]

\* a request that never reached the store, or that the store refused for another reason
networkError == [code |-> "", message |-> "Failed to fetch", has |-> {}]

includes(error, fragment) == fragment \in error.has

\* a catch block that shows the message of the store as it is
assetErrorMessage_rawMessage(error) ==
    IF error.message # "" THEN error.message ELSE "Failed to save asset"

\* Assets.vue catch block
assetErrorMessage(error) ==
    IF includes(error, "duplicate") \/ error.code = "23505"
    THEN IF includes(error, "asset_name") THEN "Asset name already exists"
         ELSE IF includes(error, "serial_number") THEN "Serial number already exists"
         ELSE "Duplicate entry"
    ELSE IF error.message # "" THEN error.message ELSE "Failed to save asset"

staffErrorMessage(error) ==
    IF includes(error, "duplicate") \/ error.code = "23505"
    THEN "Staff ID already exists"
    ELSE IF error.message # "" THEN error.message ELSE "Failed to save staff"

categoryErrorMessage(error) ==
    IF includes(error, "duplicate")
    THEN "Category code already exists"
    ELSE IF error.message # "" THEN error.message ELSE "Failed to save category"

licenseErrorMessage(error) ==
    IF includes(error, "duplicate") \/ error.code = "23505"
    THEN "License key already exists"
    ELSE IF error.message # "" THEN error.message ELSE "Failed to save license"

(***************************************************************************)
(* Time.  An instant is a tick; a month has TicksPerMonth of them.  The    *)
(* last tick of a month stands for the instants after 23:59:59.000 of its  *)
(* last day, the tick before it for 23:59:59.000 itself, and the earlier   *)
(* ticks for noon of a day of the month (what a 'YYYY-MM-DD' date parses   *)
(* to, and also the time of day of some timestamps).                       *)
(***************************************************************************)
TicksPerMonth == 3
MaxMonth == 7

monthOf(t) == t \div TicksPerMonth

Times == 0..((MaxMonth + 1) * TicksPerMonth - 1)

\* new Date().toISOString().split('T')[0]
today(t) == monthOf(t) * TicksPerMonth

(***************************************************************************)
(* The Assets view of one browser tab.                                     *)
(***************************************************************************)
emptyForm ==
    [asset_name |-> <<>>, serial_number |-> <<>>, category_id |-> NoId,
     status |-> "active", staff_id |-> NoId, purchase_date |-> NoDate,
     description |-> <<>>, status_date |-> NoDate]

NoRow == [id |-> NoId]

noLocals ==
    [payload |-> NoRow, oldAsset |-> NoRow, changes |-> <<>>, data |-> NoRow,
     user |-> NoUser]

\* `x || null` for text
orNull(s) == IF s = <<>> THEN Null ELSE s

\* `x || ''` for text
orEmpty(s) == IF s = Null THEN <<>> ELSE s

\* saveAsset: const payload = { ... }
payloadOf(form) ==
    [asset_name |-> trim(form.asset_name),
     serial_number |-> orNull(trim(form.serial_number)),
     category_id |-> form.category_id,
     status |-> form.status,
     staff_id |-> form.staff_id,
     purchase_date |-> form.purchase_date,
     description |-> orNull(trim(form.description))]

newAssetRow(payload, id, at) ==
    [id |-> id, asset_name |-> payload.asset_name, serial_number |-> payload.serial_number,
     category_id |-> payload.category_id, status |-> payload.status,
     staff_id |-> payload.staff_id, purchase_date |-> payload.purchase_date,
     description |-> payload.description, created_at |-> at]

\* an update that leaves the description column as it is
updatedAssetRow_keepDescription(row, payload) ==
    newAssetRow([payload EXCEPT !.description = row.description], row.id, row.created_at)

\* .update(payload).eq('id', id): created_at is kept
updatedAssetRow(row, payload) == newAssetRow(payload, row.id, row.created_at)

\* an audit row that records every change as an update
historyRow_alwaysUpdate(id, assetId, user, field, old, new, type, at, effective) ==
    [id |-> id, asset_id |-> assetId, user_id |-> user, field_name |-> field,
     old_value |-> old, new_value |-> new, change_type |-> "update",
     created_at |-> at, effective_date |-> effective]

historyRow(id, assetId, user, field, old, new, type, at, effective) ==
    [id |-> id, asset_id |-> assetId, user_id |-> user, field_name |-> field,
     old_value |-> old, new_value |-> new, change_type |-> type,
     created_at |-> at, effective_date |-> effective]

userOf(c) == "user"

Set(c, r) == ui' = [ui EXCEPT ![c] = r]

Idle(c) == ui[c].pc = "idle"

storeVars ==
    <<assets, asset_history, categories, staff, licenses, staff_history, locations, nextId>>

NoName == <<"?">>

\* What is observed of the save in progress, or of the last one, of a tab; it is
\* forgotten when the user opens or closes a form.  issued holds the names of the
\* assets the tab has created one after the other (sequentialCreate), date the
\* date of the change of location entered in the Staff form.
noGhost ==
    [forms |-> 0, op |-> "none", name |-> NoName, retryOf |-> NoName, taken |-> FALSE,
     outcome |-> "none", assetId |-> NoId, user |-> NoUser,
     histOk |-> 0, histFail |-> 0, updates |-> 0, histBefore |-> 0,
     old |-> NoRow, new |-> NoRow, issued |-> {}, date |-> NoDate]

Observe(c, g) == ghost' = [ghost EXCEPT ![c] = g]

Forget(c) ==
    Observe(c, [noGhost EXCEPT !.forms = ghost[c].forms, !.issued = ghost[c].issued])

\* the forms a user opens are counted, and bounded by MaxForms
Opened(c) ==
    /\ ghost[c].forms < MaxForms
    /\ Observe(c, [noGhost EXCEPT !.forms = ghost[c].forms + 1,
                                  !.issued = ghost[c].issued])

\* The "Add Asset" and edit buttons lie under the overlay of an open modal.
openCreate(c) ==
    /\ Idle(c)
    /\ ~ui[c].showModal
    /\ Set(c, [ui[c] EXCEPT !.editingId = NoId, !.originalStatus = "null",
                            !.form = emptyForm, !.formError = "", !.showModal = TRUE])
    /\ Opened(c)
    /\ UNCHANGED <<now, storeVars, other, monthlyData>>

openEdit(c, i) ==
    /\ Idle(c)
    /\ ~ui[c].showModal
    /\ i \in 1..Len(ui[c].assets)
    /\ LET asset == ui[c].assets[i]
       IN  Set(c, [ui[c] EXCEPT
               !.editingId = asset.id,
               !.originalStatus = asset.status,
               !.form = [asset_name |-> asset.asset_name,
                         serial_number |-> orEmpty(asset.serial_number),
                         category_id |-> asset.category_id,
                         status |-> asset.status,
                         staff_id |-> asset.staff_id,
                         purchase_date |-> asset.purchase_date,
                         description |-> orEmpty(asset.description),
                         status_date |-> today(now)],
               !.formError = "", !.showModal = TRUE])
    /\ Opened(c)
    /\ UNCHANGED <<now, storeVars, other, monthlyData>>

closeModal(c) ==
    /\ Idle(c)
    /\ ui[c].showModal
    /\ Set(c, [ui[c] EXCEPT !.showModal = FALSE, !.editingId = NoId, !.formError = ""])
    /\ Forget(c)
    /\ UNCHANGED <<now, storeVars, other, monthlyData>>

(***************************************************************************)
(* The category <select> and the watcher on form.category_id, which starts *)
(* generateAssetName for a new asset.  A request is in flight from the     *)
(* query to the resumption of the watcher, which stores the name.          *)
(***************************************************************************)
cachedCategory(c, id) == RowById(ui[c].categories, id)

selectCategory(c, cat) ==
    /\ Idle(c)
    /\ ui[c].showModal
    /\ cat # ui[c].form.category_id
    /\ cat = NoId \/ HasId(ui[c].categories, cat)
    /\ IF ui[c].editingId = NoId /\ cat # NoId
       THEN /\ Cardinality(ui[c].pending) < MaxPending
            /\ Set(c, [ui[c] EXCEPT
                   !.form.category_id = cat,
                   !.pending = @ \cup {[category_id |-> cat,
                                        prefix |-> assetPrefix(cachedCategory(c, cat).code),
                                        code |-> cachedCategory(c, cat).code,
                                        name |-> NoName]}])
       ELSE Set(c, [ui[c] EXCEPT !.form.category_id = cat])
    /\ UNCHANGED <<now, storeVars, other, monthlyData, ghost>>

\* the query of generateAssetName answered by the store; without data (a failed
\* query) maxNum stays 0
generateAssetName(c, r, answered) ==
    /\ r \in ui[c].pending
    /\ r.name = NoName
    /\ LET data == IF answered THEN likePrefix(assets, r.prefix) ELSE {}
       IN  Set(c, [ui[c] EXCEPT
               !.pending = (@ \ {r}) \cup {[r EXCEPT !.name = nextAssetName(r.code, data)]}])
    /\ UNCHANGED <<now, storeVars, other, monthlyData, ghost>>

\* form.value.asset_name = await generateAssetName(...)
assignGeneratedName(c, r) ==
    /\ r \in ui[c].pending
    /\ r.name # NoName
    /\ Set(c, [ui[c] EXCEPT !.pending = @ \ {r}, !.form.asset_name = r.name])
    /\ UNCHANGED <<now, storeVars, other, monthlyData, ghost>>

(***************************************************************************)
(* The user's other inputs in the asset form.  The name input is disabled  *)
(* for a new asset (:disabled="!editingId"); the status date input is shown *)
(* when the status of an edited asset differs from the original one.       *)
(***************************************************************************)
setField(c, field, value) ==
    /\ Idle(c)
    /\ ui[c].showModal
    /\ field # "category_id"
    /\ field = "asset_name" => ui[c].editingId # NoId
    /\ field = "status_date" =>
           ui[c].editingId # NoId /\ ui[c].form.status # ui[c].originalStatus
    /\ ui[c].form[field] # value
    /\ Set(c, [ui[c] EXCEPT !.form[field] = value])
    /\ UNCHANGED <<now, storeVars, other, monthlyData, ghost>>

\* The inputs of the form stay enabled while a save is in flight (only the submit
\* button has :disabled="saving"): the user picks another status while the update
\* request is on its way.  saveAsset reads form.status again after that await.
changeStatusWhileUpdating(c, value) ==
    /\ ui[c].pc = "update"
    /\ ui[c].showModal
    /\ ui[c].form.status # value
    /\ Set(c, [ui[c] EXCEPT !.form.status = value])
    /\ UNCHANGED <<now, storeVars, other, monthlyData, ghost>>

(***************************************************************************)
(* saveAsset, one action per await.                                        *)
(***************************************************************************)
\* a handler that goes on to the request without looking at the required fields
saveAsset_unvalidated(c) ==
    /\ Idle(c)
    /\ ui[c].showModal
    /\ LET payload == payloadOf(ui[c].form)
           editing == ui[c].editingId # NoId
           oldAsset == IF editing /\ HasId(ui[c].assets, ui[c].editingId)
                       THEN RowById(ui[c].assets, ui[c].editingId)
                       ELSE NoRow
       IN  /\ Set(c, [ui[c] EXCEPT
                  !.saving = TRUE, !.formError = "",
                  !.loc = [noLocals EXCEPT !.payload = payload, !.oldAsset = oldAsset],
                  !.pc = IF editing THEN "update" ELSE "insert"])
           /\ Observe(c, [noGhost EXCEPT
                  !.forms = ghost[c].forms,
                  !.issued = ghost[c].issued,
                  !.op = IF editing THEN "update" ELSE "create",
                  !.name = payload.asset_name,
                  !.outcome = "pending",
                  !.histBefore = Len(asset_history),
                  !.old = oldAsset, !.new = payload])
    /\ UNCHANGED <<now, storeVars, other, monthlyData>>

\* the synchronous part: validation, payload, and the lookup of the old asset
saveAsset(c) ==
    /\ Idle(c)
    /\ ui[c].showModal
    /\ IF trim(ui[c].form.asset_name) = <<>>
       THEN /\ Set(c, [ui[c] EXCEPT !.formError = "Asset name is required"])
            /\ UNCHANGED ghost
       ELSE IF ui[c].form.category_id = NoId
       THEN /\ Set(c, [ui[c] EXCEPT !.formError = "Category is required"])
            /\ UNCHANGED ghost
       ELSE LET payload == payloadOf(ui[c].form)
                editing == ui[c].editingId # NoId
                oldAsset == IF editing /\ HasId(ui[c].assets, ui[c].editingId)
                            THEN RowById(ui[c].assets, ui[c].editingId)
                            ELSE NoRow
            IN  /\ Set(c, [ui[c] EXCEPT
                       !.saving = TRUE, !.formError = "",
                       !.loc = [noLocals EXCEPT !.payload = payload, !.oldAsset = oldAsset],
                       !.pc = IF editing THEN "update" ELSE "insert"])
                /\ Observe(c, [noGhost EXCEPT
                       !.forms = ghost[c].forms,
                       !.issued = ghost[c].issued,
                       !.op = IF editing THEN "update" ELSE "create",
                       !.name = payload.asset_name,
                       !.retryOf = IF /\ ~editing
                                      /\ ui[c].formError = "Asset name already exists"
                                   THEN ghost[c].name ELSE NoName,
                       !.outcome = "pending",
                       !.histBefore = Len(asset_history),
                       !.old = oldAsset, !.new = payload])
    /\ UNCHANGED <<now, storeVars, other, monthlyData>>

\* catch (error) { formError = ... } finally { saving = false }
saveFailed(c, error) ==
    /\ Set(c, [ui[c] EXCEPT !.formError = assetErrorMessage(error), !.saving = FALSE,
                            !.loc = noLocals, !.pc = "idle"])
    /\ Observe(c, [ghost[c] EXCEPT !.outcome = assetErrorMessage(error),
                                   !.old = NoRow, !.new = NoRow])

\* supabase.from('assets').insert(payload).select().single()
insertAsset(c, reached) ==
    /\ ui[c].pc = "insert"
    /\ LET payload == ui[c].loc.payload
           violated == assetsViolation(assets, payload, NoId)
       IN  IF ~reached
           THEN /\ saveFailed(c, networkError)
                /\ UNCHANGED <<assets, nextId>>
           ELSE IF violated # "none"
           THEN /\ Set(c, [ui[c] EXCEPT !.formError = assetErrorMessage(uniqueError(violated)),
                                        !.saving = FALSE, !.loc = noLocals, !.pc = "idle"])
                /\ Observe(c, [ghost[c] EXCEPT
                       !.outcome = assetErrorMessage(uniqueError(violated)),
                       !.taken = (violated = "assets_asset_name_key"),
                       !.old = NoRow, !.new = NoRow])
                /\ UNCHANGED <<assets, nextId>>
           ELSE /\ Len(assets) < MaxAssets
                /\ assets' = Append(assets, newAssetRow(payload, nextId.assets, now))
                /\ nextId' = [nextId EXCEPT !.assets = @ + 1]
                /\ Set(c, [ui[c] EXCEPT
                       !.loc.data = newAssetRow(payload, nextId.assets, now),
                       !.pc = "created"])
                /\ Observe(c, [ghost[c] EXCEPT !.assetId = nextId.assets])
    /\ UNCHANGED <<now, asset_history, categories, staff, licenses, staff_history, locations, other, monthlyData>>

\* an insert into asset_history: refused when the asset is gone (the foreign key),
\* and it can fail like any request
canInsertHistory(assetId) == HasId(assets, assetId) /\ Len(asset_history) < MaxHistory

\* "Track asset creation": getUser, then the insert, whose result is not looked at
trackCreation(c, user, inserted) ==
    /\ ui[c].pc = "created"
    /\ IF user # NoUser /\ inserted
       THEN /\ canInsertHistory(ui[c].loc.data.id)
            /\ asset_history' = Append(asset_history,
                   historyRow(nextId.asset_history, ui[c].loc.data.id, user, "asset",
                              VNull, VText(ui[c].loc.payload.asset_name), "create",
                              now, NoDate))
            /\ nextId' = [nextId EXCEPT !.asset_history = @ + 1]
       ELSE UNCHANGED <<asset_history, nextId>>
    /\ Set(c, [ui[c] EXCEPT !.pc = "fetch"])
    /\ Observe(c, [ghost[c] EXCEPT
           !.user = user,
           !.histOk = IF user # NoUser /\ inserted THEN 1 ELSE 0,
           !.histFail = IF user # NoUser /\ ~inserted THEN 1 ELSE 0])
    /\ UNCHANGED <<now, assets, categories, staff, licenses, staff_history, locations, other, monthlyData>>

\* await fetchData(); closeModal(); finally { saving = false }
\* fetchData catches its own errors and then leaves the lists as they were.
\* The lists are searched by id only; their order is left as in the store.
fetchData(c, answered) ==
    /\ ui[c].pc = "fetch"
    /\ Set(c, [ui[c] EXCEPT
           !.assets = IF answered THEN assets ELSE @,
           !.categories = IF answered THEN categories ELSE @,
           !.staffList = IF answered THEN staff ELSE @,
           !.showModal = FALSE, !.editingId = NoId, !.formError = "",
           !.saving = FALSE, !.loc = noLocals, !.pc = "idle"])
    /\ Observe(c, [ghost[c] EXCEPT !.outcome = "ok"])
    /\ UNCHANGED <<now, storeVars, other, monthlyData>>

(***************************************************************************)
(* trackChanges: the comparison of the old asset with the payload.         *)
(***************************************************************************)
\* String(x || '') for a status
normStatus(x) == IF x = "null" THEN "" ELSE x

\* String(x || '') for text
normText(x) == IF x = Null THEN <<>> ELSE x

\* staffList.value.find(s => s.id === id)?.name || null
staffName(c, id) ==
    IF id # NoId /\ HasId(ui[c].staffList, id)
    THEN VText(RowById(ui[c].staffList, id).name) ELSE VNull

\* categories.value.find(c => c.id === id)?.name || null
categoryName(c, id) ==
    IF id # NoId /\ HasId(ui[c].categories, id)
    THEN VText(RowById(ui[c].categories, id).name) ELSE VNull

change(field, old, new, date) ==
    [field_name |-> field, old_value |-> old, new_value |-> new, custom_date |-> date]

\* a tracker that records the new status as the old value too
statusChange_newAsOld(old, new, statusDate) ==
    IF normStatus(old.status) # normStatus(new.status)
    THEN <<change("status", VStr(new.status), VStr(new.status), statusDate)>> ELSE <<>>

statusChange(old, new, statusDate) ==
    IF normStatus(old.status) # normStatus(new.status)
    THEN <<change("status", VStr(old.status), VStr(new.status), statusDate)>> ELSE <<>>

staffChange(c, old, new) ==
    IF old.staff_id # new.staff_id
    THEN <<change("assigned_to", staffName(c, old.staff_id), staffName(c, new.staff_id), NoDate)>>
    ELSE <<>>

categoryChange(c, old, new) ==
    IF old.category_id # new.category_id
    THEN <<change("category", categoryName(c, old.category_id),
                  categoryName(c, new.category_id), NoDate)>>
    ELSE <<>>

serialChange(old, new) ==
    IF normText(old.serial_number) # normText(new.serial_number)
    THEN <<change("serial_number", VText(old.serial_number), VText(new.serial_number), NoDate)>>
    ELSE <<>>

descriptionChange(old, new) ==
    IF normText(old.description) # normText(new.description)
    THEN <<change("description", VText(old.description), VText(new.description), NoDate)>>
    ELSE <<>>

purchaseDateChange(old, new) ==
    IF old.purchase_date # new.purchase_date
    THEN <<change("purchase_date", VDate(old.purchase_date), VDate(new.purchase_date), NoDate)>>
    ELSE <<>>

\* a tracker that does not look at the serial number
changesOf_withoutSerial(c, old, new, statusDate) ==
    statusChange(old, new, statusDate) \o staffChange(c, old, new)
    \o categoryChange(c, old, new)
    \o descriptionChange(old, new) \o purchaseDateChange(old, new)

changesOf(c, old, new, statusDate) ==
    statusChange(old, new, statusDate) \o staffChange(c, old, new)
    \o categoryChange(c, old, new) \o serialChange(old, new)
    \o descriptionChange(old, new) \o purchaseDateChange(old, new)

(***************************************************************************)
(* The update branch of saveAsset.                                         *)
(***************************************************************************)
\* supabase.from('assets').update(payload).eq('id', editingId), then the start of
\* trackChanges: getUser and the list of changes.  An update that matches no row
\* (the asset was deleted meanwhile) is not an error.
updateAsset(c, reached, user) ==
    /\ ui[c].pc = "update"
    /\ LET payload == ui[c].loc.payload
           id == ui[c].editingId
           oldAsset == ui[c].loc.oldAsset
           violated == IF HasId(assets, id) THEN assetsViolation(assets, payload, id)
                       ELSE "none"
           statusDate == IF ui[c].form.status # ui[c].originalStatus
                         THEN ui[c].form.status_date ELSE NoDate
           changes == IF oldAsset.id # NoId /\ user # NoUser
                      THEN changesOf(c, oldAsset, payload, statusDate) ELSE <<>>
       IN  IF ~reached
           THEN /\ saveFailed(c, networkError)
                /\ UNCHANGED assets
           ELSE IF violated # "none"
           THEN /\ saveFailed(c, uniqueError(violated))
                /\ UNCHANGED assets
           ELSE /\ assets' = [i \in 1..Len(assets) |->
                                 IF assets[i].id = id
                                 THEN updatedAssetRow(assets[i], payload) ELSE assets[i]]
                /\ Set(c, [ui[c] EXCEPT !.loc.changes = changes, !.loc.user = user,
                                        !.pc = IF changes = <<>> THEN "fetch" ELSE "track"])
                /\ Observe(c, [ghost[c] EXCEPT !.updates = @ + 1, !.user = user,
                                               !.assetId = id])
    /\ UNCHANGED <<now, asset_history, categories, staff, licenses, staff_history, locations, nextId, other, monthlyData>>

\* a tracker whose failed insert is thrown to the catch block of saveAsset
insertHistory_throwing(c, inserted) ==
    /\ ui[c].pc = "track"
    /\ LET ch == Head(ui[c].loc.changes)
           rest == Tail(ui[c].loc.changes)
       IN  IF inserted
           THEN /\ canInsertHistory(ui[c].editingId)
                /\ asset_history' = Append(asset_history,
                       historyRow(nextId.asset_history, ui[c].editingId, ui[c].loc.user,
                                  ch.field_name, ch.old_value, ch.new_value, "update",
                                  now, ch.custom_date))
                /\ nextId' = [nextId EXCEPT !.asset_history = @ + 1]
                /\ Set(c, [ui[c] EXCEPT !.loc.changes = rest,
                                        !.pc = IF rest = <<>> THEN "fetch" ELSE "track"])
                /\ Observe(c, [ghost[c] EXCEPT !.histOk = @ + 1])
           ELSE /\ Set(c, [ui[c] EXCEPT !.formError = assetErrorMessage(networkError),
                                        !.saving = FALSE, !.loc = noLocals, !.pc = "idle"])
                /\ Observe(c, [ghost[c] EXCEPT !.outcome = assetErrorMessage(networkError),
                                               !.histFail = @ + 1])
                /\ UNCHANGED <<asset_history, nextId>>
    /\ UNCHANGED <<now, assets, categories, staff, licenses, staff_history, locations, other, monthlyData>>

\* a tracker that leaves the loop at the first insert that fails
insertHistory_stopping(c, inserted) ==
    /\ ui[c].pc = "track"
    /\ LET ch == Head(ui[c].loc.changes)
           rest == IF inserted THEN Tail(ui[c].loc.changes) ELSE <<>>
       IN  /\ IF inserted
              THEN /\ canInsertHistory(ui[c].editingId)
                   /\ asset_history' = Append(asset_history,
                          historyRow(nextId.asset_history, ui[c].editingId, ui[c].loc.user,
                                     ch.field_name, ch.old_value, ch.new_value, "update",
                                     now, ch.custom_date))
                   /\ nextId' = [nextId EXCEPT !.asset_history = @ + 1]
              ELSE UNCHANGED <<asset_history, nextId>>
           /\ Set(c, [ui[c] EXCEPT !.loc.changes = rest,
                                   !.pc = IF rest = <<>> THEN "fetch" ELSE "track"])
           /\ Observe(c, [ghost[c] EXCEPT
                  !.histOk = IF inserted THEN @ + 1 ELSE @,
                  !.histFail = IF inserted THEN @ ELSE @ + 1])
    /\ UNCHANGED <<now, assets, categories, staff, licenses, staff_history, locations, other, monthlyData>>

\* one turn of "for (const change of changes)": an insert whose error is only logged
insertHistory(c, inserted) ==
    /\ ui[c].pc = "track"
    /\ LET ch == Head(ui[c].loc.changes)
           rest == Tail(ui[c].loc.changes)
       IN  /\ IF inserted
              THEN /\ canInsertHistory(ui[c].editingId)
                   /\ asset_history' = Append(asset_history,
                          historyRow(nextId.asset_history, ui[c].editingId, ui[c].loc.user,
                                     ch.field_name, ch.old_value, ch.new_value, "update",
                                     now, ch.custom_date))
                   /\ nextId' = [nextId EXCEPT !.asset_history = @ + 1]
              ELSE UNCHANGED <<asset_history, nextId>>
           /\ Set(c, [ui[c] EXCEPT !.loc.changes = rest,
                                   !.pc = IF rest = <<>> THEN "fetch" ELSE "track"])
           /\ Observe(c, [ghost[c] EXCEPT
                  !.histOk = IF inserted THEN @ + 1 ELSE @,
                  !.histFail = IF inserted THEN @ ELSE @ + 1])
    /\ UNCHANGED <<now, assets, categories, staff, licenses, staff_history, locations, other, monthlyData>>

(***************************************************************************)
(* The create forms of the Staff, Categories and Licenses views.  Each     *)
(* save makes one request; the action is the whole handler for a new row.  *)
(***************************************************************************)
MaxCategories == 4
MaxStaff == 2
MaxLicenses == 2

\* what the view shows after the handler, with the key of the submitted payload
Outcome(c, view, key, error) ==
    other' = [other EXCEPT ![c] = [view |-> view, key |-> key, formError |-> error,
                                   showModal |-> error # "", saving |-> FALSE]]

saveStaff(c, name, staffId, reached) ==
    /\ Idle(c)
    /\ IF trim(name) = <<>> THEN Outcome(c, "staff", trim(staffId), "Name is required") /\ UNCHANGED <<staff, nextId>>
       ELSE IF trim(staffId) = <<>>
       THEN Outcome(c, "staff", trim(staffId), "Staff ID is required") /\ UNCHANGED <<staff, nextId>>
       ELSE LET payload == [name |-> trim(name), staff_id |-> trim(staffId),
                            location_id |-> NoId]
                violated == staffViolation(staff, payload, NoId)
            IN  IF ~reached
                THEN Outcome(c, "staff", trim(staffId), staffErrorMessage(networkError))
                     /\ UNCHANGED <<staff, nextId>>
                ELSE IF violated # "none"
                THEN Outcome(c, "staff", trim(staffId), staffErrorMessage(uniqueError(violated)))
                     /\ UNCHANGED <<staff, nextId>>
                ELSE /\ Len(staff) < MaxStaff
                     /\ staff' = Append(staff, [id |-> nextId.staff] @@ payload)
                     /\ nextId' = [nextId EXCEPT !.staff = @ + 1]
                     /\ Outcome(c, "staff", trim(staffId), "")
    /\ UNCHANGED <<now, assets, asset_history, categories, licenses, staff_history, locations, ui, monthlyData, ghost>>

saveCategory(c, name, code, reached) ==
    /\ Idle(c)
    /\ IF trim(name) = <<>>
       THEN Outcome(c, "categories", toUpperCase(trim(code)), "Category name is required")
            /\ UNCHANGED <<categories, nextId>>
       ELSE IF trim(code) = <<>>
       THEN Outcome(c, "categories", toUpperCase(trim(code)), "Category code is required")
            /\ UNCHANGED <<categories, nextId>>
       ELSE LET payload == [name |-> trim(name), code |-> toUpperCase(trim(code))]
                violated == categoriesViolation(categories, payload, NoId)
            IN  IF ~reached
                THEN Outcome(c, "categories", toUpperCase(trim(code)), categoryErrorMessage(networkError))
                     /\ UNCHANGED <<categories, nextId>>
                ELSE IF violated # "none"
                THEN Outcome(c, "categories", toUpperCase(trim(code)), categoryErrorMessage(uniqueError(violated)))
                     /\ UNCHANGED <<categories, nextId>>
                ELSE /\ Len(categories) < MaxCategories
                     /\ categories' = Append(categories, [id |-> nextId.categories] @@ payload)
                     /\ nextId' = [nextId EXCEPT !.categories = @ + 1]
                     /\ Outcome(c, "categories", toUpperCase(trim(code)), "")
    /\ UNCHANGED <<now, assets, asset_history, staff, licenses, staff_history, locations, ui, monthlyData, ghost>>

saveLicense(c, name, key, reached) ==
    /\ Idle(c)
    /\ IF trim(name) = <<>>
       THEN Outcome(c, "licenses", trim(key), "License name is required")
            /\ UNCHANGED <<licenses, nextId>>
       ELSE IF trim(key) = <<>>
       THEN Outcome(c, "licenses", trim(key), "License key is required")
            /\ UNCHANGED <<licenses, nextId>>
       ELSE LET payload == [name |-> trim(name), license_key |-> trim(key)]
                violated == licensesViolation(licenses, payload, NoId)
            IN  IF ~reached
                THEN Outcome(c, "licenses", trim(key), licenseErrorMessage(networkError))
                     /\ UNCHANGED <<licenses, nextId>>
                ELSE IF violated # "none"
                THEN Outcome(c, "licenses", trim(key), licenseErrorMessage(uniqueError(violated)))
                     /\ UNCHANGED <<licenses, nextId>>
                ELSE /\ Len(licenses) < MaxLicenses
                     /\ licenses' = Append(licenses, [id |-> nextId.licenses] @@ payload)
                     /\ nextId' = [nextId EXCEPT !.licenses = @ + 1]
                     /\ Outcome(c, "licenses", trim(key), "")
    /\ UNCHANGED <<now, assets, asset_history, categories, staff, staff_history, locations, ui, monthlyData, ghost>>

(***************************************************************************)
(* The Locations view: saveLocation, the whole handler.  The table has no  *)
(* unique key; the view patches its list instead of fetching it again.     *)
(***************************************************************************)
MaxLocations == 3

\* error.message || 'Failed to save location'
locationErrorMessage(error) ==
    IF error.message # "" THEN error.message ELSE "Failed to save location"

\* a catch block that leaves formError as it was
saveLocation_silent(c, name, reached) ==
    /\ Idle(c)
    /\ IF trim(name) = <<>>
       THEN Outcome(c, "locations", trim(name), "Location name is required")
            /\ UNCHANGED <<locations, nextId>>
       ELSE IF ~reached
       THEN other' = [other EXCEPT ![c] = [view |-> "locations", key |-> trim(name),
                                           formError |-> "", showModal |-> TRUE,
                                           saving |-> FALSE]]
            /\ UNCHANGED <<locations, nextId>>
       ELSE /\ Len(locations) < MaxLocations
            /\ locations' = Append(locations, [id |-> nextId.locations, name |-> trim(name)])
            /\ nextId' = [nextId EXCEPT !.locations = @ + 1]
            /\ Outcome(c, "locations", trim(name), "")
    /\ UNCHANGED <<now, assets, asset_history, categories, staff, licenses, staff_history,
                   ui, monthlyData, ghost>>

\* the form of a new location
saveLocation(c, name, reached) ==
    /\ Idle(c)
    /\ IF trim(name) = <<>>
       THEN Outcome(c, "locations", trim(name), "Location name is required")
            /\ UNCHANGED <<locations, nextId>>
       ELSE IF ~reached
       THEN Outcome(c, "locations", trim(name), locationErrorMessage(networkError))
            /\ UNCHANGED <<locations, nextId>>
       ELSE /\ Len(locations) < MaxLocations
            /\ locations' = Append(locations, [id |-> nextId.locations, name |-> trim(name)])
            /\ nextId' = [nextId EXCEPT !.locations = @ + 1]
            /\ Outcome(c, "locations", trim(name), "")
    /\ UNCHANGED <<now, assets, asset_history, categories, staff, licenses, staff_history,
                   ui, monthlyData, ghost>>

(***************************************************************************)
(* The edit form of the Staff view: saveStaff with editingId set, the whole *)
(* handler.  A change of the location is recorded in staff_history after    *)
(* the update, by an insert whose result is not looked at.                  *)
(***************************************************************************)
MaxStaffHistory == 1

\* the locations the store holds at the start
seedLocations == <<[id |-> 1, name |-> <<"H">>], [id |-> 2, name |-> <<"Q">>]>>

getLocationName(id) ==
    IF id # NoId /\ HasId(locations, id)
    THEN VText(RowById(locations, id).name) ELSE VText(<<"-">>)

\* a row that does not keep the date entered in the form
staffHistoryRow_undated(id, staffId, user, old, new, at, effective) ==
    [id |-> id, staff_id |-> staffId, user_id |-> user, field_name |-> "location",
     old_value |-> old, new_value |-> new, change_type |-> "update",
     created_at |-> at, effective_date |-> NoDate]

staffHistoryRow(id, staffId, user, old, new, at, effective) ==
    [id |-> id, staff_id |-> staffId, user_id |-> user, field_name |-> "location",
     old_value |-> old, new_value |-> new, change_type |-> "update",
     created_at |-> at, effective_date |-> effective]

\* user?.id || 'system'
userIdOr(user) == IF user = NoUser THEN "system" ELSE user

\* what is observed of the save of the staff form; the forms are counted
staffGhost(c, old, payload, outcome) ==
    [noGhost EXCEPT !.forms = ghost[c].forms + 1, !.issued = ghost[c].issued,
                    !.op = "staff_update", !.outcome = outcome, !.assetId = old.id,
                    !.histBefore = Len(staff_history), !.old = old, !.new = payload]

\* the same, with the date entered, the user and the result of the insert
staffTracked(g, date, user, changed, inserted) ==
    [g EXCEPT !.date = date, !.user = user,
              !.histOk = IF changed /\ inserted THEN 1 ELSE 0,
              !.histFail = IF changed /\ ~inserted THEN 1 ELSE 0]

\* a handler that records the change of location before it updates the row
updateStaff_historyFirst(c, id, staffId, locationId, date, reached, user, inserted) ==
    /\ Idle(c)
    /\ ghost[c].forms < MaxForms
    /\ HasId(staff, id)
    /\ trim(staffId) # <<>>
    /\ LET old == RowById(staff, id)
           payload == [name |-> trim(old.name), staff_id |-> trim(staffId),
                       location_id |-> locationId]
           locationChanged == old.location_id # payload.location_id
           violated == staffViolation(staff, payload, id)
           error == IF ~reached THEN staffErrorMessage(networkError)
                    ELSE IF violated # "none" THEN staffErrorMessage(uniqueError(violated))
                    ELSE ""
       IN  /\ ~locationChanged => date = NoDate
           /\ IF locationChanged /\ inserted
              THEN /\ Len(staff_history) < MaxStaffHistory
                   /\ staff_history' = Append(staff_history,
                          staffHistoryRow(nextId.staff_history, id, userIdOr(user),
                                          getLocationName(old.location_id),
                                          getLocationName(payload.location_id), now, date))
                   /\ nextId' = [nextId EXCEPT !.staff_history = @ + 1]
              ELSE UNCHANGED <<staff_history, nextId>>
           /\ staff' = IF error # "" THEN staff
                       ELSE [i \in 1..Len(staff) |->
                                IF staff[i].id = id THEN [id |-> id] @@ payload ELSE staff[i]]
           /\ Outcome(c, "staff_edit", payload.staff_id, error)
           /\ Observe(c, staffTracked(staffGhost(c, old, payload,
                                                  IF error = "" THEN "ok" ELSE error),
                                       date, user, locationChanged, inserted))
    /\ UNCHANGED <<now, assets, asset_history, categories, licenses, locations, ui, monthlyData>>

updateStaff(c, id, staffId, locationId, date, reached, user, inserted) ==
    /\ Idle(c)
    /\ ghost[c].forms < MaxForms
    /\ HasId(staff, id)
    /\ LET old == RowById(staff, id)
           payload == [name |-> trim(old.name), staff_id |-> trim(staffId),
                       location_id |-> locationId]
           locationChanged == old.location_id # payload.location_id
           violated == staffViolation(staff, payload, id)
           failed(error) ==
               /\ Outcome(c, "staff_edit", payload.staff_id, error)
               /\ Observe(c, staffGhost(c, old, payload, error))
               /\ UNCHANGED <<staff, staff_history, nextId>>
       IN  /\ ~locationChanged => date = NoDate
           /\ IF trim(staffId) = <<>> THEN failed("Staff ID is required")
              ELSE IF ~reached THEN failed(staffErrorMessage(networkError))
              ELSE IF violated # "none" THEN failed(staffErrorMessage(uniqueError(violated)))
              ELSE /\ staff' = [i \in 1..Len(staff) |->
                                   IF staff[i].id = id THEN [id |-> id] @@ payload
                                   ELSE staff[i]]
                   /\ IF locationChanged /\ inserted
                      THEN /\ Len(staff_history) < MaxStaffHistory
                           /\ staff_history' = Append(staff_history,
                                  staffHistoryRow(nextId.staff_history, id, userIdOr(user),
                                                  getLocationName(old.location_id),
                                                  getLocationName(payload.location_id),
                                                  now, date))
                           /\ nextId' = [nextId EXCEPT !.staff_history = @ + 1]
                      ELSE UNCHANGED <<staff_history, nextId>>
                   /\ Outcome(c, "staff_edit", payload.staff_id, "")
                   /\ Observe(c, staffTracked(staffGhost(c, old, payload, "ok"),
                                               date, user, locationChanged, inserted))
    /\ UNCHANGED <<now, assets, asset_history, categories, licenses, locations, ui, monthlyData>>

(***************************************************************************)
(* The state after the views are mounted on a store that holds the         *)
(* categories and one staff member.                                        *)
(***************************************************************************)
seedCategories ==
    <<[id |-> 1, name |-> <<"L">>, code |-> <<"A">>],
      [id |-> 2, name |-> <<"M">>, code |-> <<"B">>],
      [id |-> 3, name |-> <<"P">>, code |-> <<"A", "+">>]>>

seedStaff == <<[id |-> 1, name |-> <<"N">>, staff_id |-> <<"S">>, location_id |-> NoId]>>

mountedView(rows) ==
    [assets |-> rows, categories |-> seedCategories, staffList |-> seedStaff,
     showModal |-> FALSE, editingId |-> NoId, form |-> emptyForm,
     originalStatus |-> "null", formError |-> "", saving |-> FALSE,
     pc |-> "idle", pending |-> {}, loc |-> noLocals]

noOther ==
    [view |-> "none", key |-> <<>>, formError |-> "", showModal |-> FALSE, saving |-> FALSE]

\* the dashboard before its data is loaded
noMonthlyData == [view |-> "none", at |-> 0, warned |-> FALSE, months |-> <<>>]

InitStore ==
    /\ now = 5 * TicksPerMonth
    /\ assets = <<>>
    /\ asset_history = <<>>
    /\ categories = seedCategories
    /\ staff = seedStaff
    /\ licenses = <<>>
    /\ staff_history = <<>>
    /\ locations = seedLocations
    /\ nextId = [assets |-> 1, asset_history |-> 1, categories |-> 4, staff |-> 2,
                 licenses |-> 1, staff_history |-> 1,
                 locations |-> 3]

Init ==
    /\ InitStore
    /\ ui = [c \in Clients |-> mountedView(<<>>)]
    /\ other = [c \in Clients |-> noOther]
    /\ monthlyData = noMonthlyData
    /\ ghost = [c \in Clients |-> noGhost]

(***************************************************************************)
(* What the user types and picks.                                          *)
(***************************************************************************)
TextInputs == {<<>>, <<"X">>}

\* Two browser tabs on the Assets view creating assets: the user of the first is
\* free, the user of the second creates assets in the first category.
CategoriesFor(c) == IF c = 1 THEN {1, 2} ELSE {1}
SerialsFor(c) == IF c = 1 THEN {<<>>, <<"X">>} ELSE {<<"X">>}

Next ==
    \E c \in Clients :
        \/ openCreate(c)
        \/ closeModal(c)
        \/ \E cat \in CategoriesFor(c) : selectCategory(c, cat)
        \/ \E v \in SerialsFor(c) : setField(c, "serial_number", v)
        \/ \E r \in ui[c].pending, answered \in BOOLEAN : generateAssetName(c, r, answered)
        \/ \E r \in ui[c].pending : assignGeneratedName(c, r)
        \/ saveAsset(c)
        \/ \E reached \in BOOLEAN : insertAsset(c, reached)
        \/ \E user \in {NoUser, userOf(c)}, inserted \in BOOLEAN : trackCreation(c, user, inserted)
        \/ \E answered \in BOOLEAN : fetchData(c, answered)

Spec == Init /\ [][Next]_vars

(***************************************************************************)
(* One tab creating assets one after the other: each creation is openCreate,*)
(* the query of generateAssetName, the insert of saveAsset, the audit row   *)
(* and the refetch, with nothing in between.  The store may grow to MaxSeq  *)
(* assets.                                                                  *)
(***************************************************************************)
sequentialCreate(c, cat, status) ==
    /\ Idle(c)
    /\ Len(assets) < MaxSeq
    /\ HasId(ui[c].categories, cat)
    /\ LET code == cachedCategory(c, cat).code
           name == nextAssetName(code, likePrefix(assets, assetPrefix(code)))
           form == [emptyForm EXCEPT !.asset_name = name, !.category_id = cat,
                                     !.status = status]
           payload == payloadOf(form)
           violated == assetsViolation(assets, payload, NoId)
           data == newAssetRow(payload, nextId.assets, now)
       IN  IF violated = "none"
           THEN /\ assets' = Append(assets, data)
                /\ asset_history' = Append(asset_history,
                       historyRow(nextId.asset_history, data.id, userOf(c), "asset",
                                  VNull, VText(payload.asset_name), "create", now, NoDate))
                /\ nextId' = [nextId EXCEPT !.assets = @ + 1, !.asset_history = @ + 1]
                /\ Set(c, [ui[c] EXCEPT !.form = form, !.formError = "",
                                        !.assets = assets'])
                /\ Observe(c, [ghost[c] EXCEPT !.issued = @ \cup {payload.asset_name}])
           ELSE /\ UNCHANGED <<assets, asset_history, nextId, ghost>>
                /\ Set(c, [ui[c] EXCEPT
                       !.form = form, !.showModal = TRUE,
                       !.formError = assetErrorMessage(uniqueError(violated))])
    /\ UNCHANGED <<now, categories, staff, licenses, staff_history, locations, other>>

NextGen ==
    \E cat \in 1..Len(seedCategories) :
        sequentialCreate(1, cat, "active") /\ UNCHANGED monthlyData

SpecGen == Init /\ [][NextGen]_vars

(***************************************************************************)
(* One tab creating assets one after the other and deleting them.  The     *)
(* rows of asset_history reference their asset ON DELETE CASCADE, so the   *)
(* store drops them with the asset.                                        *)
(***************************************************************************)
MaxIssued == 4

\* deleteAsset after confirm(): an error of the request is only logged
deleteAsset(c, id, reached) ==
    /\ Idle(c)
    /\ ~ui[c].showModal
    /\ HasId(ui[c].assets, id)
    /\ IF reached
       THEN /\ assets' = SelectRows(assets, [i \in 1..Len(assets) |-> assets[i].id # id])
            /\ asset_history' =
                   SelectRows(asset_history, [i \in 1..Len(asset_history) |->
                                                 asset_history[i].asset_id # id])
            /\ Set(c, [ui[c] EXCEPT
                   !.assets = SelectRows(ui[c].assets, [i \in 1..Len(ui[c].assets) |->
                                                           ui[c].assets[i].id # id])])
       ELSE UNCHANGED <<assets, asset_history, ui>>
    /\ UNCHANGED <<now, categories, staff, licenses, staff_history, locations, nextId, other,
                   monthlyData, ghost>>

NextDelete ==
    \/ \E cat \in 1..Len(seedCategories) :
           /\ nextId.assets <= MaxIssued
           /\ sequentialCreate(1, cat, "active")
           /\ UNCHANGED monthlyData
    \/ \E id \in 1..MaxIssued, reached \in BOOLEAN : deleteAsset(1, id, reached)
    \/ closeModal(1)

SpecDelete == Init /\ [][NextDelete]_vars

(***************************************************************************)
(* Two tabs on the Staff view: the first creates staff members, and both   *)
(* edit them.                                                              *)
(***************************************************************************)
StaffNames == {<<"N">>, <<" ">>}
StaffIdsTyped == {<<"S">>, <<"T">>, <<>>}
StaffLocations == {NoId, 1, 2}
LocationDates == {NoDate, 3 * TicksPerMonth}

NextStaff ==
    \/ \E name \in StaffNames, staffId \in StaffIdsTyped, reached \in BOOLEAN :
           saveStaff(1, name, staffId, reached)
    \/ \E c \in Clients :
           \E id \in 1..MaxStaff, staffId \in StaffIdsTyped,
              locationId \in StaffLocations, date \in LocationDates,
              reached, inserted \in BOOLEAN, user \in {NoUser, userOf(c)} :
               updateStaff(c, id, staffId, locationId, date, reached, user, inserted)

SpecStaff == Init /\ [][NextStaff]_vars

(***************************************************************************)
(* The generator on stores whose names were renamed in the edit form or    *)
(* are left over from deleted sequences: gaps, high numbers, and text      *)
(* after the prefix that is not a number.  The store starts with up to     *)
(* MaxRollSeeds of these names, and one tab creates assets one after the   *)
(* other; a client may also call the function of the store.                *)
(***************************************************************************)
MaxRollSeeds == 2
MaxRollAssets == 5

RollNames ==
    <<[name |-> <<"K", "L", "S", "B", "-", "A", "-", "0", "0", "2">>, category_id |-> 1],
      [name |-> <<"K", "L", "S", "B", "-", "A", "-", "9", "9", "8">>, category_id |-> 1],
      [name |-> <<"K", "L", "S", "B", "-", "A", "-", "1", "0", "0", "0">>, category_id |-> 1],
      [name |-> <<"K", "L", "S", "B", "-", "A", "-", "X", "7">>, category_id |-> 1],
      [name |-> <<"K", "L", "S", "B", "-", "A", "-", "K", "L", "S", "B", "-", "A", "-", "7">>,
       category_id |-> 1],
      [name |-> <<"K", "L", "S", "B", "-", "B", "-", "9", "9", "9">>, category_id |-> 2],
      [name |-> <<"K", "L", "S", "B", "-", "A", "+", "-", "9", "9", "9">>, category_id |-> 3]>>

rollAsset(i) ==
    [id |-> i, asset_name |-> RollNames[i].name, serial_number |-> Null,
     category_id |-> RollNames[i].category_id, status |-> "active", staff_id |-> NoId,
     purchase_date |-> NoDate, description |-> Null, created_at |-> 2 * TicksPerMonth]

InitRoll ==
    /\ now = 5 * TicksPerMonth
    /\ \E keep \in [1..Len(RollNames) -> BOOLEAN] :
           /\ Cardinality({i \in 1..Len(RollNames) : keep[i]}) <= MaxRollSeeds
           /\ assets = SelectRows([i \in 1..Len(RollNames) |-> rollAsset(i)], keep)
    /\ asset_history = <<>>
    /\ categories = seedCategories
    /\ staff = seedStaff
    /\ licenses = <<>>
    /\ staff_history = <<>>
    /\ locations = seedLocations
    /\ nextId = [assets |-> Len(RollNames) + 1, asset_history |-> 1, categories |-> 4,
                 staff |-> 2, licenses |-> 1, staff_history |-> 1,
                 locations |-> 3]
    /\ ui = [c \in Clients |-> mountedView(assets)]
    /\ other = [c \in Clients |-> noOther]
    /\ monthlyData = noMonthlyData
    /\ ghost = [c \in Clients |-> noGhost]

\* supabase.rpc('get_next_asset_name', { category_code }): the answer of the store
callNextAssetName(c, code) ==
    /\ Idle(c)
    /\ other' = [other EXCEPT ![c] = [view |-> "get_next_asset_name",
                                      key |-> get_next_asset_name(code, assets),
                                      formError |-> "", showModal |-> FALSE,
                                      saving |-> FALSE]]
    /\ UNCHANGED <<now, storeVars, ui, monthlyData, ghost>>

NextRoll ==
    \/ \E cat \in 1..Len(seedCategories) :
           /\ Len(assets) < MaxRollAssets
           /\ sequentialCreate(1, cat, "active")
           /\ UNCHANGED monthlyData
    \/ \E i \in 1..Len(seedCategories) : callNextAssetName(2, seedCategories[i].code)

SpecRoll == InitRoll /\ [][NextRoll]_vars

(***************************************************************************)
(* One tab editing the assets of a store that holds two of them.           *)
(***************************************************************************)
SeedTime == 2 * TicksPerMonth

seedAsset(serial, staffId) ==
    [id |-> 1, asset_name |-> <<"K", "L", "S", "B", "-", "A", "-", "0", "0", "1">>,
     serial_number |-> serial, category_id |-> 1, status |-> "active",
     staff_id |-> staffId, purchase_date |-> NoDate, description |-> Null,
     created_at |-> SeedTime]

otherAsset ==
    [id |-> 2, asset_name |-> <<"K", "L", "S", "B", "-", "A", "-", "0", "0", "2">>,
     serial_number |-> <<"Y">>, category_id |-> 1, status |-> "active",
     staff_id |-> NoId, purchase_date |-> NoDate, description |-> Null,
     created_at |-> SeedTime]

InitSeeded(serials, staffIds) ==
    /\ now = 5 * TicksPerMonth
    /\ \E serial \in serials, staffId \in staffIds :
           assets = <<seedAsset(serial, staffId), otherAsset>>
    /\ asset_history = <<>>
    /\ categories = seedCategories
    /\ staff = seedStaff
    /\ licenses = <<>>
    /\ staff_history = <<>>
    /\ locations = seedLocations
    /\ nextId = [assets |-> 3, asset_history |-> 1, categories |-> 4, staff |-> 2,
                 licenses |-> 1, staff_history |-> 1,
                 locations |-> 3]
    /\ ui = [c \in Clients |-> mountedView(assets)]
    /\ other = [c \in Clients |-> noOther]
    /\ monthlyData = noMonthlyData
    /\ ghost = [c \in Clients |-> noGhost]

InitEdit == InitSeeded({Null, <<"X">>}, {NoId, 1})

EditNames ==
    {seedAsset(Null, NoId).asset_name, otherAsset.asset_name,
     <<"K", "L", "S", "B", "-", "A", "-", "0", "0", "9">>}
EditSerials == {<<>>, <<"X">>, <<"X", " ">>}
EditStatuses == {"active", "maintenance"}
EditDates == {NoDate, 3 * TicksPerMonth}

NextEdit ==
    \/ openEdit(1, 1)
    \/ closeModal(1)
    \/ \E cat \in {1, 2} : selectCategory(1, cat)
    \/ \E v \in EditNames : setField(1, "asset_name", v)
    \/ \E v \in EditSerials : setField(1, "serial_number", v)
    \/ \E v \in EditStatuses : setField(1, "status", v)
    \/ \E v \in {NoId, 1} : setField(1, "staff_id", v)
    \/ \E v \in TextInputs : setField(1, "description", v)
    \/ \E v \in EditDates : setField(1, "purchase_date", v)
    \/ setField(1, "status_date", NoDate)
    \/ saveAsset(1)
    \/ \E reached \in BOOLEAN, user \in {NoUser, userOf(1)} : updateAsset(1, reached, user)
    \/ \E inserted \in BOOLEAN : insertHistory(1, inserted)
    \/ \E answered \in BOOLEAN : fetchData(1, answered)

SpecEdit == InitEdit /\ [][NextEdit]_vars

(***************************************************************************)
(* Two tabs editing the same asset: the first changes its description, the *)
(* second its status.                                                      *)
(***************************************************************************)
InitRace == InitSeeded({Null}, {NoId})

RaceField(c) == IF c = 1 THEN "description" ELSE "status"
RaceValue(c) == IF c = 1 THEN <<"X">> ELSE "maintenance"

NextRace ==
    \E c \in Clients :
        \/ openEdit(c, 1)
        \/ closeModal(c)
        \/ setField(c, RaceField(c), RaceValue(c))
        \/ saveAsset(c)
        \/ \E reached \in BOOLEAN : updateAsset(c, reached, userOf(c))
        \/ \E inserted \in BOOLEAN : insertHistory(c, inserted)
        \/ \E answered \in BOOLEAN : fetchData(c, answered)

SpecRace == InitRace /\ [][NextRace]_vars

(***************************************************************************)
(* The saves that write an audit table: the first tab creates an asset or  *)
(* edits one in the Assets view, the second edits the staff member in the  *)
(* Staff view.  In the create form the user sets the category, the serial  *)
(* number and the status; in the edit form every tracked field.            *)
(***************************************************************************)
AuditSerials == {<<>>, <<"Y">>}
AuditStatusDates == {NoDate, 3 * TicksPerMonth}
AuditStaffIds == {<<"S">>, <<>>}
AuditLocations == {NoId, 1}

InitAudit == InitSeeded({Null}, {NoId})

NextAudit ==
    \/ openCreate(1)
    \/ openEdit(1, 1)
    \/ closeModal(1)
    \/ \E cat \in {1, 2} : selectCategory(1, cat)
    \/ \E r \in ui[1].pending, answered \in BOOLEAN : generateAssetName(1, r, answered)
    \/ \E r \in ui[1].pending : assignGeneratedName(1, r)
    \/ \E v \in AuditSerials : setField(1, "serial_number", v)
    \/ \E v \in EditStatuses : setField(1, "status", v)
    \/ \E v \in AuditStatusDates : setField(1, "status_date", v)
    \/ \E v \in {NoId, 1} : ui[1].editingId # NoId /\ setField(1, "staff_id", v)
    \/ \E v \in TextInputs : ui[1].editingId # NoId /\ setField(1, "description", v)
    \/ \E v \in EditDates : ui[1].editingId # NoId /\ setField(1, "purchase_date", v)
    \/ saveAsset(1)
    \/ \E v \in EditStatuses : changeStatusWhileUpdating(1, v)
    \/ \E reached \in BOOLEAN : insertAsset(1, reached)
    \/ \E user \in {NoUser, userOf(1)}, inserted \in BOOLEAN : trackCreation(1, user, inserted)
    \/ \E reached \in BOOLEAN, user \in {NoUser, userOf(1)} : updateAsset(1, reached, user)
    \/ \E inserted \in BOOLEAN : insertHistory(1, inserted)
    \/ \E answered \in BOOLEAN : fetchData(1, answered)
    \/ \E staffId \in AuditStaffIds, locationId \in AuditLocations,
          date \in AuditStatusDates, reached, inserted \in BOOLEAN,
          user \in {NoUser, userOf(2)} :
           updateStaff(2, 1, staffId, locationId, date, reached, user, inserted)

SpecAudit == InitAudit /\ [][NextAudit]_vars

(***************************************************************************)
(* The create forms of the four views on a store that holds assets, staff  *)
(* and categories: the first tab creates assets, the second one staff,     *)
(* categories and licenses.                                                *)
(***************************************************************************)
FormSerials == {<<>>, <<"Y">>}
StaffIdInputs == {<<"T">>, <<"S", " ">>}
LicenseKeyInputs == {<<"X">>}
FormCodes == {<<"a">>, <<"C">>}

InitForms == InitSeeded({<<"X">>}, {NoId})

NextForms ==
    \/ openCreate(1)
    \/ closeModal(1)
    \/ selectCategory(1, 1)
    \/ \E v \in FormSerials : setField(1, "serial_number", v)
    \/ \E r \in ui[1].pending, answered \in BOOLEAN : generateAssetName(1, r, answered)
    \/ \E r \in ui[1].pending : assignGeneratedName(1, r)
    \/ saveAsset(1)
    \/ \E reached \in BOOLEAN : insertAsset(1, reached)
    \/ \E inserted \in BOOLEAN : trackCreation(1, userOf(1), inserted)
    \/ \E answered \in BOOLEAN : fetchData(1, answered)
    \/ \E staffId \in StaffIdInputs, reached \in BOOLEAN : saveStaff(2, <<"N">>, staffId, reached)
    \/ \E code \in FormCodes, reached \in BOOLEAN : saveCategory(2, <<"N">>, code, reached)
    \/ \E key \in LicenseKeyInputs, reached \in BOOLEAN : saveLicense(2, <<"N">>, key, reached)

SpecForms == InitForms /\ [][NextForms]_vars

(***************************************************************************)
(* The dashboard: fetchMonthlyData of the view that reads effective_date   *)
(* (unnamed/part_006) and of src/views/Dashboard.vue, which reads the      *)
(* record time only.                                                       *)
(***************************************************************************)
NumBuckets == 6

\* new Date(year, month - (5 - idx) + 1, 0, 23, 59, 59): 23:59:59.000 of the last
\* day of the month of bucket k (idx = k - 1)
bucketMonth(t, k) == monthOf(t) - (NumBuckets - k)

\* cutoffs that run from the newest month back to the oldest
monthEnd_newestFirst(t, k) ==
    (monthOf(t) - (k - 1)) * TicksPerMonth + (TicksPerMonth - 2)

monthEnd(t, k) == bucketMonth(t, k) * TicksPerMonth + (TicksPerMonth - 2)

\* parseDate of a 'YYYY-MM-DD' string is noon of the day; a timestamp is itself
parseDate(d) == d

\* h.effective_date ? parseDate(h.effective_date) : parseDate(h.created_at)
changeDate(h) ==
    IF h.effective_date # NoDate THEN parseDate(h.effective_date) ELSE parseDate(h.created_at)

\* .eq('field_name', 'status')
statusRows == SelectRows(asset_history, [i \in 1..Len(asset_history) |->
                                            asset_history[i].field_name = "status"])

\* the orders in which a query without .order() may return n rows
QueryOrders(n) == {p \in [1..n -> 1..n] : \A i, j \in 1..n : p[i] = p[j] => i = j}

\* the orders of .order('created_at', { ascending: true })
QueryOrdersByCreatedAt(rows) ==
    {p \in QueryOrders(Len(rows)) :
        \A i, j \in 1..Len(rows) : i < j => rows[p[i]].created_at <= rows[p[j]].created_at}

inOrder(rows, p) == [i \in 1..Len(rows) |-> rows[p[i]]]

\* Array.prototype.sort with (a, b) => date(a) - date(b): stable
insertByDate(sorted, h) ==
    LET k == Cardinality({i \in 1..Len(sorted) : changeDate(sorted[i]) <= changeDate(h)})
    IN  SubSeq(sorted, 1, k) \o <<h>> \o SubSeq(sorted, k + 1, Len(sorted))

RECURSIVE sortByDate(_)
sortByDate(rows) ==
    IF rows = <<>> THEN <<>>
    ELSE insertByDate(sortByDate(SubSeq(rows, 1, Len(rows) - 1)), rows[Len(rows)])

\* `if (x.new_value) statusAtMonth = x.new_value`
newValueOr(h, status) ==
    IF h.new_value.k = "str" /\ h.new_value.s # "" THEN h.new_value.s ELSE status

\* part_006: the body of assets.forEach; "none" when the asset is skipped
statusAtMonth(asset, history, cutoff) ==
    LET assetHistory ==
            SelectRows(history, [i \in 1..Len(history) |->
                                    /\ history[i].asset_id = asset.id
                                    /\ changeDate(history[i]) <= cutoff])
        sorted == sortByDate(assetHistory)
    IN  IF asset.created_at > cutoff /\ Len(assetHistory) = 0 THEN "none"
        ELSE IF Len(assetHistory) > 0 THEN newValueOr(sorted[Len(sorted)], "active")
        ELSE asset.status

RECURSIVE applyChanges(_, _)
applyChanges(rows, status) ==
    IF rows = <<>> THEN status
    ELSE applyChanges(Tail(rows), newValueOr(Head(rows), status))

\* Dashboard.vue: the body of assets.forEach
statusAtMonthByRecordTime(asset, history, cutoff) ==
    LET assetHistory ==
            SelectRows(history, [i \in 1..Len(history) |->
                                    /\ history[i].asset_id = asset.id
                                    /\ history[i].created_at <= cutoff])
    IN  IF asset.created_at > cutoff THEN "none"
        ELSE IF Len(assetHistory) = 0 THEN asset.status
        ELSE applyChanges(assetHistory, "active")

\* buckets whose total also counts the assets that are skipped
monthData_countingSkipped(found) ==
    [s \in Statuses |-> Cardinality({i \in 1..Len(found) : found[i] = s})]
    @@ [total |-> Len(found)]

\* monthData.total++ and the counter of the status
monthData(found) ==
    [s \in Statuses |-> Cardinality({i \in 1..Len(found) : found[i] = s})]
    @@ [total |-> Cardinality({i \in 1..Len(found) : found[i] # "none"})]

\* part_006.  The assets query that fails leaves monthlyData as it was; a failed
\* history query is only logged (warned).
fetchMonthlyData(assetsAnswered, historyAnswered, order) ==
    /\ order \in QueryOrders(Len(statusRows))
    /\ LET history == IF historyAnswered THEN inOrder(statusRows, order) ELSE <<>>
       IN  IF ~assetsAnswered THEN UNCHANGED monthlyData
           ELSE monthlyData' =
                    [view |-> "effective_date", at |-> now, warned |-> ~historyAnswered,
                     months |-> [k \in 1..NumBuckets |->
                         monthData([i \in 1..Len(assets) |->
                             statusAtMonth(assets[i], history, monthEnd(now, k))])]]
    /\ UNCHANGED <<now, storeVars, ui, other, ghost>>

\* src/views/Dashboard.vue
fetchMonthlyDataByRecordTime(assetsAnswered, historyAnswered, order) ==
    /\ order \in QueryOrdersByCreatedAt(statusRows)
    /\ LET history == IF historyAnswered THEN inOrder(statusRows, order) ELSE <<>>
       IN  IF ~assetsAnswered THEN UNCHANGED monthlyData
           ELSE monthlyData' =
                    [view |-> "created_at", at |-> now, warned |-> ~historyAnswered,
                     months |-> [k \in 1..NumBuckets |->
                         monthData([i \in 1..Len(assets) |->
                             statusAtMonthByRecordTime(assets[i], history, monthEnd(now, k))])]]
    /\ UNCHANGED <<now, storeVars, ui, other, ghost>>

(***************************************************************************)
(* One tab over the months: it creates assets and changes their status in  *)
(* the Assets view, each save in one step from the open of the form to the *)
(* refetch, and it opens either dashboard.  Leaving a dashboard unmounts   *)
(* it, so its data is gone when the tab is on the Assets view.  The time   *)
(* that passes while a dashboard is shown is left out: its data is that of *)
(* the load, whose time monthlyData.at records.                            *)
(***************************************************************************)
MaxDashAssets == 1
MaxChanges == 2

DashStatuses == {"active", "maintenance"}

\* the status date of the edit form: cleared, left at today, or set two months back
StatusDates(t) == {NoDate, today(t), today(t) - 2 * TicksPerMonth}

onAssetsView == monthlyData = noMonthlyData

\* the router leaves the dashboard: onUnmounted, the refs of the view are dropped
unmountDashboard ==
    /\ ~onAssetsView
    /\ monthlyData' = noMonthlyData
    /\ UNCHANGED <<now, storeVars, ui, other, ghost>>

tick ==
    /\ onAssetsView
    /\ now + 1 \in Times
    /\ now' = now + 1
    /\ UNCHANGED <<storeVars, ui, other, monthlyData, ghost>>

\* openEdit, the status <select> and the status date, saveAsset, trackChanges
\* and fetchData
sequentialEdit(c, i, status, statusDate, inserted) ==
    /\ Idle(c)
    /\ i \in 1..Len(ui[c].assets)
    /\ HasId(assets, ui[c].assets[i].id)
    /\ status # ui[c].assets[i].status
    /\ Len(statusRows) < MaxChanges
    /\ LET oldAsset == ui[c].assets[i]
           originalStatus == oldAsset.status
           form == [asset_name |-> oldAsset.asset_name,
                    serial_number |-> orEmpty(oldAsset.serial_number),
                    category_id |-> oldAsset.category_id,
                    status |-> status,
                    staff_id |-> oldAsset.staff_id,
                    purchase_date |-> oldAsset.purchase_date,
                    description |-> orEmpty(oldAsset.description),
                    status_date |-> statusDate]
           payload == payloadOf(form)
           date == IF form.status # originalStatus THEN form.status_date ELSE NoDate
           changes == changesOf(c, oldAsset, payload, date)
           rows == [k \in 1..Len(changes) |->
                       historyRow(nextId.asset_history + k - 1, oldAsset.id, userOf(c),
                                  changes[k].field_name, changes[k].old_value,
                                  changes[k].new_value, "update", now,
                                  changes[k].custom_date)]
       IN  /\ assetsViolation(assets, payload, oldAsset.id) = "none"
           /\ assets' = [k \in 1..Len(assets) |->
                            IF assets[k].id = oldAsset.id
                            THEN updatedAssetRow(assets[k], payload) ELSE assets[k]]
           /\ asset_history' = IF inserted THEN asset_history \o rows ELSE asset_history
           /\ nextId' = IF inserted
                        THEN [nextId EXCEPT !.asset_history = @ + Len(rows)] ELSE nextId
           /\ Set(c, [ui[c] EXCEPT !.form = form, !.originalStatus = originalStatus,
                                   !.assets = assets'])
    /\ UNCHANGED <<now, categories, staff, licenses, staff_history, locations, other, ghost>>

NextDash ==
    \/ tick
    \/ unmountDashboard
    \/ \E status \in DashStatuses :
           /\ onAssetsView
           /\ Len(assets) < MaxDashAssets
           /\ sequentialCreate(1, 1, status)
           /\ UNCHANGED monthlyData
    \/ \E i \in 1..MaxDashAssets, status \in DashStatuses, statusDate \in StatusDates(now),
          inserted \in BOOLEAN :
           /\ onAssetsView
           /\ sequentialEdit(1, i, status, statusDate, inserted)
           /\ UNCHANGED monthlyData
    \/ \E assetsAnswered, historyAnswered \in BOOLEAN, order \in QueryOrders(Len(statusRows)) :
           onAssetsView /\ fetchMonthlyData(assetsAnswered, historyAnswered, order)
    \/ \E assetsAnswered, historyAnswered \in BOOLEAN, order \in QueryOrders(Len(statusRows)) :
           onAssetsView /\ fetchMonthlyDataByRecordTime(assetsAnswered, historyAnswered, order)

SpecDash == Init /\ [][NextDash]_vars

(***************************************************************************)
(* One tab that has the create form open with a category picked, the       *)
(* lookup of the name still on its way: the user goes on in that form, or  *)
(* closes it and opens an asset for edit.                                  *)
(***************************************************************************)
pickedView(rows, cat) ==
    [mountedView(rows) EXCEPT
        !.showModal = TRUE,
        !.form = [emptyForm EXCEPT !.category_id = cat],
        !.pending = {[category_id |-> cat,
                      prefix |-> assetPrefix(RowById(seedCategories, cat).code),
                      code |-> RowById(seedCategories, cat).code,
                      name |-> NoName]}]

InitWatch ==
    /\ now = 5 * TicksPerMonth
    /\ assets = <<seedAsset(Null, NoId), otherAsset>>
    /\ asset_history = <<>>
    /\ categories = seedCategories
    /\ staff = seedStaff
    /\ licenses = <<>>
    /\ staff_history = <<>>
    /\ locations = seedLocations
    /\ nextId = [assets |-> 3, asset_history |-> 1, categories |-> 4, staff |-> 2,
                 licenses |-> 1, staff_history |-> 1,
                 locations |-> 3]
    /\ ui = [c \in Clients |-> IF c = 1 THEN pickedView(assets, 2) ELSE mountedView(assets)]
    /\ other = [c \in Clients |-> noOther]
    /\ monthlyData = noMonthlyData
    /\ ghost = [c \in Clients |-> noGhost]

NextWatch ==
    \/ closeModal(1)
    \/ openEdit(1, 1)
    \/ \E cat \in {1, 2} : selectCategory(1, cat)
    \/ \E r \in ui[1].pending, answered \in BOOLEAN : generateAssetName(1, r, answered)
    \/ \E r \in ui[1].pending : assignGeneratedName(1, r)
    \/ setField(1, "serial_number", <<"X">>)
    \/ saveAsset(1)
    \/ \E reached \in BOOLEAN : insertAsset(1, reached)
    \/ trackCreation(1, userOf(1), TRUE)
    \/ \E reached \in BOOLEAN : updateAsset(1, reached, userOf(1))
    \/ insertHistory(1, TRUE)
    \/ \E answered \in BOOLEAN : fetchData(1, answered)

SpecWatch == InitWatch /\ [][NextWatch]_vars

(***************************************************************************)
(* The save handlers of the five views, one user at work: either the one   *)
(* of the first tab, who fills and saves the form of a new asset or of an  *)
(* edited one, or the one of the second tab, who saves staff, categories,  *)
(* licenses and locations.                                                 *)
(***************************************************************************)
SaveNames == {<<"N">>, <<" ">>}
SaveSerials == {<<"Y">>, <<"Z">>}
SaveStaffIds == {<<"S">>, <<"T">>, <<>>}
SaveCodes == {<<"a">>, <<"C">>, <<>>}
SaveKeys == {<<"X">>, <<>>}

InitSaves == InitSeeded({<<"X">>}, {NoId})

firstTabAtWork == other[2] = noOther /\ ghost[2] = noGhost
secondTabAtWork == ghost[1] = noGhost /\ ui[1] = mountedView(assets)

NextSaves ==
    \/ firstTabAtWork /\ openCreate(1)
    \/ firstTabAtWork /\ openEdit(1, 1)
    \/ firstTabAtWork /\ closeModal(1)
    \/ \E cat \in {NoId, 1} : firstTabAtWork /\ selectCategory(1, cat)
    \/ \E r \in ui[1].pending, answered \in BOOLEAN :
           firstTabAtWork /\ generateAssetName(1, r, answered)
    \/ \E r \in ui[1].pending : firstTabAtWork /\ assignGeneratedName(1, r)
    \/ \E v \in SaveNames : firstTabAtWork /\ setField(1, "asset_name", v)
    \/ \E v \in SaveSerials : firstTabAtWork /\ setField(1, "serial_number", v)
    \/ firstTabAtWork /\ saveAsset(1)
    \/ \E reached \in BOOLEAN : firstTabAtWork /\ insertAsset(1, reached)
    \/ \E user \in {NoUser, userOf(1)}, inserted \in BOOLEAN :
           firstTabAtWork /\ trackCreation(1, user, inserted)
    \/ \E reached \in BOOLEAN, user \in {NoUser, userOf(1)} :
           firstTabAtWork /\ updateAsset(1, reached, user)
    \/ \E inserted \in BOOLEAN : firstTabAtWork /\ insertHistory(1, inserted)
    \/ \E answered \in BOOLEAN : firstTabAtWork /\ fetchData(1, answered)
    \/ \E name \in SaveNames, staffId \in SaveStaffIds, reached \in BOOLEAN :
           secondTabAtWork /\ saveStaff(2, name, staffId, reached)
    \/ \E staffId \in SaveStaffIds, locationId \in {NoId, 1}, date \in {NoDate, today(now)},
          reached, inserted \in BOOLEAN :
           secondTabAtWork
           /\ updateStaff(2, 1, staffId, locationId, date, reached, userOf(2), inserted)
    \/ \E name \in SaveNames, code \in SaveCodes, reached \in BOOLEAN :
           secondTabAtWork /\ saveCategory(2, name, code, reached)
    \/ \E name \in SaveNames, key \in SaveKeys, reached \in BOOLEAN :
           secondTabAtWork /\ saveLicense(2, name, key, reached)
    \/ \E name \in SaveNames, reached \in BOOLEAN :
           secondTabAtWork /\ saveLocation(2, name, reached)

SpecSaves == InitSaves /\ [][NextSaves]_vars

(***************************************************************************)
(* One tab whose every request succeeds: it creates assets in any status   *)
(* and changes their status, each save in one step.                        *)
(***************************************************************************)
MaxTrailAssets == 2

NextTrail ==
    \/ \E status \in Statuses :
           /\ Len(assets) < MaxTrailAssets
           /\ sequentialCreate(1, 1, status)
           /\ UNCHANGED monthlyData
    \/ \E i \in 1..MaxTrailAssets, status \in Statuses, statusDate \in StatusDates(now) :
           /\ sequentialEdit(1, i, status, statusDate, TRUE)
           /\ UNCHANGED monthlyData

SpecTrail == Init /\ [][NextTrail]_vars

(***************************************************************************)
(* Claims.                                                                 *)
(***************************************************************************)
\* the name the specification gives to the k-th asset of a category
ZeroPad3(k) ==
    IF k < 10 THEN <<"0", "0">> \o String(k)
    ELSE IF k < 100 THEN <<"0">> \o String(k)
    ELSE String(k)

SpecName(code, k) == <<"K", "L", "S", "B", "-">> \o code \o <<"-">> \o ZeroPad3(k)

NamesUnder(code) == likePrefix(assets, assetPrefix(code))

\* the store holds exactly the assets 001 .. N under the prefix of the code
NoGaps(code, N) == NamesUnder(code) = {SpecName(code, k) : k \in 1..N}

\* C1: for every category code C and every N >= 0, when the store holds exactly
\* the N assets KLSB-C-001 .. KLSB-C-N under the prefix, the generated name is
\* KLSB-C-<N+1>, zero-padded to width 3 (KLSB-C-001 when there is none).
C1_NextInSequence ==
    \A i \in 1..Len(categories) : \A N \in 0..MaxSeq :
        NoGaps(categories[i].code, N) =>
            nextAssetName(categories[i].code, NamesUnder(categories[i].code))
                = SpecName(categories[i].code, N + 1)

\* the same, for the category codes made of letters only
C1_LettersOnly ==
    \A i \in 1..Len(categories) : \A N \in 0..MaxSeq :
        (NoGaps(categories[i].code, N) /\ \A j \in 1..Len(categories[i].code) :
                                              categories[i].code[j] # "+") =>
            nextAssetName(categories[i].code, NamesUnder(categories[i].code))
                = SpecName(categories[i].code, N + 1)

(***************************************************************************)
(* Concurrent creation.                                                    *)
(***************************************************************************)
NamesUnique ==
    \A i, j \in 1..Len(assets) : assets[i].asset_name = assets[j].asset_name => i = j

NameTaken(name) == \E i \in 1..Len(assets) : assets[i].asset_name = name

\* the insert of tab c is answered in this step
InsertAnswered(c) == ui[c].pc = "insert" /\ ui'[c].pc # "insert"

InsertOutcome(c) ==
    LET name == ui[c].loc.payload.asset_name
    IN  /\ NameTaken(name) =>
            /\ assets' = assets
            /\ ui'[c].formError \in {"Asset name already exists", networkError.message}
        /\ ui'[c].formError = "Asset name already exists" => NameTaken(name)
        /\ assets' # assets =>
            /\ ~NameTaken(name)
            /\ Len(assets') = Len(assets) + 1
            /\ SubSeq(assets', 1, Len(assets)) = assets
            /\ assets'[Len(assets')].asset_name = name
            /\ ui'[c].formError = ""

\* C2: under every interleaving of the name scans and the inserts of concurrent
\* creations no two asset rows of the store share an asset_name; an insert that
\* reaches the store when its name is already held adds no row and ends with
\* formError 'Asset name already exists', and that message is shown only when
\* another insert of the name has succeeded: of the creators of one name exactly
\* one inserts its row.
C2_UniqueNames ==
    /\ []NamesUnique
    /\ [][\A c \in Clients : InsertAnswered(c) => InsertOutcome(c)]_vars

\* two tabs submitted the same candidate name: one inserted it, the other was rejected
C2_RaceHappened ==
    \E c, d \in Clients :
        /\ c # d
        /\ ghost[c].op = "create" /\ ghost[d].op = "create"
        /\ ghost[c].name = ghost[d].name
        /\ ghost[c].assetId # NoId
        /\ ghost[d].taken
        /\ ui[d].formError = "Asset name already exists"
        /\ ui[d].showModal

\* C3: after a creation was rejected because the asset name exists, the next
\* submit of the still-open create form carries a regenerated name, not the
\* rejected one.
C3_RetryRegenerates ==
    \A c \in Clients :
        (ui[c].pc = "insert" /\ ghost[c].retryOf # NoName) =>
            ui[c].loc.payload.asset_name # ghost[c].retryOf

HistoryOf(assetId) ==
    SelectRows(asset_history, [i \in 1..Len(asset_history) |->
                                  asset_history[i].asset_id = assetId])

CreatedBy(c) ==
    /\ ghost[c].op = "create"
    /\ ghost[c].outcome = "ok"
    /\ ghost[c].user # NoUser

OneCreateRow(c) ==
    LET rows == HistoryOf(ghost[c].assetId)
    IN  /\ Len(rows) = 1
        /\ rows[1].change_type = "create"
        /\ rows[1].old_value = VNull
        /\ rows[1].new_value = VText(ghost[c].name)

\* C5 as stated: a successful creation by an authenticated user appends exactly
\* one asset_history row for the new asset, of change_type 'create', old_value
\* null and new_value the inserted name, and no 'update' row.
C5_CreateRowAlways == \A c \in Clients : CreatedBy(c) => OneCreateRow(c)

\* C5: a successful creation by an authenticated user whose asset_history insert
\* succeeds appends exactly one asset_history row for the new asset, of
\* change_type 'create', old_value null and new_value the inserted name, and no
\* 'update' row.
C5_CreateRow ==
    \A c \in Clients : (CreatedBy(c) /\ ghost[c].histFail = 0) => OneCreateRow(c)

C5_Created ==
    \E c \in Clients : CreatedBy(c) /\ ghost[c].histFail = 0 /\ ghost[c].histOk = 1
                       /\ Len(HistoryOf(ghost[c].assetId)) = 1

(***************************************************************************)
(* The audit rows of an update.                                            *)
(***************************************************************************)
\* null, '' and undefined of a text compare equal
SameText(a, b) == (IF a = Null THEN <<>> ELSE a) = (IF b = Null THEN <<>> ELSE b)

\* the tracked fields in which the old asset and the new payload differ
DifferingFields(old, new) ==
    (IF old.status # new.status THEN {"status"} ELSE {})
    \cup (IF old.staff_id # new.staff_id THEN {"assigned_to"} ELSE {})
    \cup (IF old.category_id # new.category_id THEN {"category"} ELSE {})
    \cup (IF ~SameText(old.serial_number, new.serial_number) THEN {"serial_number"} ELSE {})
    \cup (IF ~SameText(old.description, new.description) THEN {"description"} ELSE {})
    \cup (IF old.purchase_date # new.purchase_date THEN {"purchase_date"} ELSE {})

\* the rows appended to asset_history since the save of tab c started
AppendedBy(c) == SubSeq(asset_history, ghost[c].histBefore + 1, Len(asset_history))

Updated(c) == ghost[c].op = "update" /\ ghost[c].outcome = "ok"

OneRowPerDifference(c) ==
    LET rows == AppendedBy(c)
        fields == DifferingFields(ghost[c].old, ghost[c].new)
    IN  /\ \A i \in 1..Len(rows) :
               /\ rows[i].change_type = "update"
               /\ rows[i].asset_id = ghost[c].assetId
        /\ {rows[i].field_name : i \in 1..Len(rows)} = fields
        /\ Len(rows) = Cardinality(fields)

\* C4 as stated: the asset_history rows appended by one update are exactly one
\* 'update' row per tracked field whose normalized old and new values differ,
\* none when no tracked field differs, and none for asset_name.
C4_RowPerChangeAlways == \A c \in Clients : Updated(c) => OneRowPerDifference(c)

\* C4: when a user is signed in and every asset_history insert succeeds, the
\* asset_history rows appended by one update are exactly one 'update' row per
\* tracked field (status, assigned_to, category, serial_number, description,
\* purchase_date) whose normalized old and new values differ, with field_name
\* naming the field; none when no tracked field differs, and none for asset_name.
C4_RowPerChange ==
    \A c \in Clients :
        (Updated(c) /\ ghost[c].user # NoUser /\ ghost[c].histFail = 0) =>
            OneRowPerDifference(c)

\* an update that changed the name and two tracked fields
C4_SeveralFields ==
    \E c \in Clients :
        /\ Updated(c) /\ ghost[c].user # NoUser /\ ghost[c].histFail = 0
        /\ Len(AppendedBy(c)) = 2
        /\ ghost[c].old.asset_name # ghost[c].new.asset_name

\* C6: when the update of the asset succeeds and a following asset_history
\* insert fails, the asset row keeps the new values, the asset is updated once,
\* and the save ends as a success: formError empty and the modal closed.
C6_AuditFailureSwallowed ==
    \A c \in Clients :
        (ghost[c].op = "update" /\ ghost[c].updates >= 1 /\ ghost[c].histFail >= 1) =>
            /\ ghost[c].updates = 1
            /\ HasId(assets, ghost[c].assetId)
            /\ RowById(assets, ghost[c].assetId)
                   = updatedAssetRow(RowById(assets, ghost[c].assetId), ghost[c].new)
            /\ ghost[c].outcome \in {"pending", "ok"}
            /\ ui[c].pc \in {"track", "fetch", "idle"}
            /\ ui[c].pc = "idle" =>
                   /\ ghost[c].outcome = "ok"
                   /\ ui[c].formError = ""
                   /\ ~ui[c].showModal
                   /\ ~ui[c].saving

C6_Swallowed ==
    \E c \in Clients :
        /\ ghost[c].op = "update" /\ ghost[c].updates = 1 /\ ghost[c].histFail >= 1
        /\ ghost[c].histOk >= 1
        /\ ui[c].pc = "idle" /\ ~ui[c].showModal
        /\ RowById(assets, ghost[c].assetId).status # ghost[c].old.status

(***************************************************************************)
(* Duplicate keys.                                                         *)
(***************************************************************************)
\* the messages that correspond to the keys of the payload p that a row holds
AssetDuplicateMessages(p) ==
    (IF \E i \in 1..Len(assets) : assets[i].asset_name = p.asset_name
     THEN {"Asset name already exists"} ELSE {})
    \cup (IF p.serial_number # Null
             /\ \E i \in 1..Len(assets) : assets[i].serial_number = p.serial_number
          THEN {"Serial number already exists"} ELSE {})

\* the insert of an asset with a duplicate key adds and changes no row and
\* shows a corresponding message, unless the request never reached the store
AssetDuplicateRejected(c) ==
    LET msgs == AssetDuplicateMessages(ui[c].loc.payload)
    IN  (InsertAnswered(c) /\ msgs # {}) =>
            /\ assets' = assets
            /\ ui'[c].formError \in msgs \cup {networkError.message}
            /\ ui'[c].showModal

\* a save handler of the Staff, Categories or Licenses view ran in this step
OtherSaved(c, view) == other'[c] # other[c] /\ other'[c].view = view

KeyHeld(rows, field, key) == \E i \in 1..Len(rows) : rows[i][field] = key

OtherDuplicateRejected(c) ==
    /\ (OtherSaved(c, "staff") /\ KeyHeld(staff, "staff_id", other'[c].key)) =>
           /\ staff' = staff
           /\ other'[c].formError \in {"Staff ID already exists", networkError.message}
    /\ (OtherSaved(c, "categories") /\ KeyHeld(categories, "code", other'[c].key)) =>
           /\ categories' = categories
           /\ other'[c].formError \in {"Category code already exists", networkError.message}
    /\ (OtherSaved(c, "licenses") /\ KeyHeld(licenses, "license_key", other'[c].key)) =>
           /\ licenses' = licenses
           /\ other'[c].formError \in {"License key already exists", networkError.message}

\* C7: the insert of a row whose asset name, serial number, license key, staff id
\* or category code equals that of an existing row is rejected by the store: no
\* row is added or changed, and the form shows the corresponding message
\* ('Asset name already exists', 'Serial number already exists', 'License key
\* already exists', 'Staff ID already exists', 'Category code already exists').
C7_DuplicateRejected ==
    [][\A c \in Clients : AssetDuplicateRejected(c) /\ OtherDuplicateRejected(c)]_vars

\* a duplicate serial number and a duplicate license key were rejected, and no
\* staff member or category was added
C7_AllRejected ==
    /\ ui[1].formError = "Serial number already exists"
    /\ other[2].formError = "License key already exists"
    /\ Len(licenses) = 1
    /\ Len(staff) = Len(seedStaff)
    /\ Len(categories) = Len(seedCategories)

(***************************************************************************)
(* Status reconstruction, for a store of one asset.                        *)
(***************************************************************************)
\* the dashboard of the given view shows the months computed from the store,
\* both queries answered
Loaded(view) == monthlyData.view = view /\ ~monthlyData.warned /\ Len(assets) = 1

\* the status under which bucket k counts the asset, "none" when it does not
Reported(k) ==
    IF monthlyData.months[k].total = 0 THEN "none"
    ELSE CHOOSE st \in Statuses : monthlyData.months[k][st] = 1

BucketOf(k) == bucketMonth(monthlyData.at, k)

CreatedIn == monthOf(assets[1].created_at)

\* the last instant of month m
LastInstant(m) == (m + 1) * TicksPerMonth - 1

\* C8: an asset created in month M that has no status audit row is counted, in
\* every one of the six buckets whose month is >= M, under its current status,
\* and in no bucket whose month is < M.
C8_NoHistoryCurrentStatus ==
    (Loaded("effective_date") /\ statusRows = <<>>) =>
        \A k \in 1..NumBuckets :
            /\ BucketOf(k) >= CreatedIn => Reported(k) = assets[1].status
            /\ BucketOf(k) < CreatedIn => Reported(k) = "none"

\* C9: for an asset created in month M whose only status audit row has its
\* effective date in month M+2, the buckets M and M+1 report the status the asset
\* held before the change, and every bucket >= M+2 reports the new status of the row.
C9_StatusBeforeChange ==
    (/\ Loaded("effective_date")
     /\ Len(statusRows) = 1
     /\ monthOf(changeDate(statusRows[1])) = CreatedIn + 2) =>
        \A k \in 1..NumBuckets :
            /\ BucketOf(k) \in {CreatedIn, CreatedIn + 1} =>
                   Reported(k) = statusRows[1].old_value.s
            /\ BucketOf(k) >= CreatedIn + 2 => Reported(k) = statusRows[1].new_value.s

\* C10: an asset contributes to the total of a bucket if and only if its creation
\* time is <= the last instant of the month of the bucket, or it has a status
\* audit row whose effective date (record time when absent) is <= that instant.
C10_ExistenceRule ==
    (Loaded("effective_date") \/ Loaded("created_at")) =>
        \A k \in 1..NumBuckets :
            Reported(k) # "none" <=>
                \/ assets[1].created_at <= LastInstant(BucketOf(k))
                \/ \E i \in 1..Len(statusRows) :
                       changeDate(statusRows[i]) <= LastInstant(BucketOf(k))

\* the status rows of the only asset dated <= the cutoff of bucket k
RowsUpTo(k) ==
    SelectRows(statusRows, [i \in 1..Len(statusRows) |->
                               /\ statusRows[i].asset_id = assets[1].id
                               /\ changeDate(statusRows[i]) <= monthEnd(monthlyData.at, k)])

\* the new values of the rows of greatest date among them
LatestNewValues(k) ==
    {RowsUpTo(k)[i].new_value.s : i \in {j \in 1..Len(RowsUpTo(k)) :
        \A m \in 1..Len(RowsUpTo(k)) :
            changeDate(RowsUpTo(k)[m]) <= changeDate(RowsUpTo(k)[j])}}

StatusRule(k) ==
    Reported(k) # "none" =>
        IF RowsUpTo(k) = <<>> THEN Reported(k) = assets[1].status
        ELSE Reported(k) \in LatestNewValues(k)

\* C11: for an asset counted in a bucket, the status recorded is the new_value of
\* the status audit row with the greatest effective-or-record date among the
\* rows of the asset dated <= the cutoff; when the asset has no such row its
\* current status is used.
C11_StatusRule ==
    (Loaded("effective_date") \/ Loaded("created_at")) =>
        \A k \in 1..NumBuckets : StatusRule(k)

\* the same, for the dashboard that reads effective_date
C11_StatusRuleEffectiveDate ==
    Loaded("effective_date") => \A k \in 1..NumBuckets : StatusRule(k)

(***************************************************************************)
(* The audit tables under deletion.                                        *)
(***************************************************************************)
Kept(before, after) ==
    \A i \in 1..Len(before) : \E j \in 1..Len(after) : after[j] = before[i]

\* C12: the audit logs are append-only: a row of asset_history or staff_history
\* that exists is present, with unchanged fields, after every step of the
\* application (creating, updating and deleting assets and staff).
C12_AppendOnly ==
    [][Kept(asset_history, asset_history') /\ Kept(staff_history, staff_history')]_vars

\* the number that the name of an asset of the category with this code carries
SequenceNumber(name, code) ==
    parseInt(SubSeq(name, Len(assetPrefix(code)) + 1, Len(name)))

\* C14: each newly created asset of a category receives a sequence number
\* strictly greater than that of every asset created in the category before,
\* over any sequence of creations and deletions.
C14_Monotone ==
    [][Len(assets') > Len(assets) =>
           LET new == assets'[Len(assets')]
               code == RowById(categories, new.category_id).code
           IN  \A c \in Clients : \A n \in ghost[c].issued :
                   StartsWith(n, assetPrefix(code)) =>
                       SequenceNumber(new.asset_name, code) > SequenceNumber(n, code)]_vars

(***************************************************************************)
(* The name of an asset and its category.                                  *)
(***************************************************************************)
\* KLSB-<code>-<digits>, the number left-zero-padded to 3 digits
EncodesCategory(name, code) ==
    /\ StartsWith(name, assetPrefix(code))
    /\ LET digits == SubSeq(name, Len(assetPrefix(code)) + 1, Len(name))
       IN  /\ Len(digits) >= 3
           /\ AllDigits(digits)
           /\ Len(digits) > 3 => digits[1] # "0"

\* C13: in every reachable state, after any sequence of asset creations and
\* edits, the name of each asset has the form KLSB-<code>-<digits>, where <code>
\* is the code of the category the asset references now and the number is
\* left-zero-padded to 3 digits.
C13_NameEncodesCategory ==
    \A i \in 1..Len(assets) :
        /\ HasId(categories, assets[i].category_id)
        /\ EncodesCategory(assets[i].asset_name,
                           RowById(categories, assets[i].category_id).code)

(***************************************************************************)
(* The effective date of the audit rows.                                   *)
(***************************************************************************)
\* the asset_history rows of the update of tab c carry the status date of the
\* form on the status row and no date on the others
DatedAsTheForm(c) ==
    \A i \in 1..Len(AppendedBy(c)) :
        AppendedBy(c)[i].effective_date =
            IF AppendedBy(c)[i].field_name = "status" THEN ui[c].form.status_date
            ELSE NoDate

\* C15: a row written by trackChanges has effective_date set if and only if its
\* field_name is 'status' and the edit form held a non-empty status date, and it
\* then equals that date; the rows for assigned_to, category, serial_number,
\* description and purchase_date, and the 'create' rows, never have it set.
C15_EffectiveDate ==
    /\ \A i \in 1..Len(asset_history) :
           asset_history[i].effective_date # NoDate =>
               /\ asset_history[i].field_name = "status"
               /\ asset_history[i].change_type = "update"
    /\ \A c \in Clients :
           (ghost[c].op = "update" /\ ghost[c].updates >= 1) => DatedAsTheForm(c)

\* the same, for the updates during which the user leaves the status select alone
C15_EffectiveDateFormUntouched ==
    /\ \A i \in 1..Len(asset_history) :
           asset_history[i].effective_date # NoDate =>
               /\ asset_history[i].field_name = "status"
               /\ asset_history[i].change_type = "update"
    /\ \A c \in Clients :
           (/\ ghost[c].op = "update" /\ ghost[c].updates >= 1
            /\ ui[c].form.status = ghost[c].new.status) => DatedAsTheForm(c)

(***************************************************************************)
(* Concurrent edits of one asset.                                          *)
(***************************************************************************)
\* the update of tab c is answered in this step
UpdateAnswered(c) == ui[c].pc = "update" /\ ui'[c].pc # "update"

\* the row that tab c edits, as the store holds it
Stored(c) == RowById(assets, ui[c].editingId)

\* an answered update either failed with the error of the network or of a
\* unique key, the table left as it was, or the row now holds the whole payload
UpdateOutcome(c) ==
    IF ui'[c].formError # ""
    THEN /\ assets' = assets
         /\ ui'[c].formError \in AssetDuplicateMessages(ui[c].loc.payload)
                                 \cup {networkError.message}
    ELSE /\ RowById(assets', ui[c].editingId)
                = newAssetRow(ui[c].loc.payload, ui[c].editingId, Stored(c).created_at)
         /\ \A i \in 1..Len(assets) :
                assets[i].id # ui[c].editingId => assets'[i] = assets[i]

\* C16: updates are last-write-wins with no version check: when two clients have
\* each opened the same asset for edit and both save, neither update is rejected
\* for staleness, and the stored row equals the full payload of the update
\* applied last, the fields its editor did not change included.
C16_LastWriteWins ==
    [][\A c \in Clients : UpdateAnswered(c) => UpdateOutcome(c)]_vars

\* both tabs saved; the second update was made from a stale copy and put the old
\* description back over the description the first had stored
C16_FirstChangeLost ==
    \E c, d \in Clients :
        /\ c # d
        /\ Updated(c) /\ Updated(d)
        /\ ghost[c].new.description # ghost[c].old.description
        /\ ghost[d].old.description = ghost[c].old.description
        /\ RowById(assets, 1) = newAssetRow(ghost[d].new, 1, seedAsset(Null, NoId).created_at)
        /\ RowById(assets, 1).description # ghost[c].new.description

(***************************************************************************)
(* The generator on any set of names.                                      *)
(***************************************************************************)
\* what follows the prefix of the code in a name under it
Remainder(name, code) == SubSeq(name, Len(assetPrefix(code)) + 1, Len(name))

\* the names under the prefix whose remainder is purely digits
Numbered(code) ==
    {nm \in NamesUnder(code) :
        Len(Remainder(nm, code)) > 0 /\ AllDigits(Remainder(nm, code))}

\* the greatest numeric suffix under the prefix, 0 when there is none
GreatestSuffix(code) == SetMax({parseInt(Remainder(nm, code)) : nm \in Numbered(code)})

Generated(code) == nextAssetName(code, NamesUnder(code))

Rollover(code) ==
    /\ GreatestSuffix(code) = 999 =>
           Generated(code) = assetPrefix(code) \o <<"1", "0", "0", "0">>
    /\ GreatestSuffix(code) = 1000 =>
           Generated(code) = assetPrefix(code) \o <<"1", "0", "0", "1">>

\* C17: when the greatest existing suffix under a prefix is 999 the generated
\* name is KLSB-C-1000, a four-digit suffix that is not truncated or wrapped, and
\* with KLSB-C-1000 present the next name is KLSB-C-1001.
C17_Rollover == \A i \in 1..Len(categories) : Rollover(categories[i].code)

LetterCode(code) == \A j \in 1..Len(code) : code[j] # "+"

\* the same, for the category codes made of letters only
C17_RolloverLetterCodes ==
    \A i \in 1..Len(categories) :
        LetterCode(categories[i].code) => Rollover(categories[i].code)

MaxPlusOne(code) ==
    /\ Generated(code)
           = assetPrefix(code) \o padStart(String(GreatestSuffix(code) + 1), 3, "0")
    /\ Generated(code) \notin NamesUnder(code)

\* C18: generateAssetName returns the prefix plus (maximum numeric suffix + 1)
\* for every set of existing names: gaps are never filled, the names under the
\* prefix whose remainder is not purely digits are ignored in the maximum, and
\* the result never equals a name of the scanned snapshot.
C18_MaxPlusOne == \A i \in 1..Len(categories) : MaxPlusOne(categories[i].code)

\* the same, for the letter codes only
C18_MaxPlusOneAnyStore ==
    \A i \in 1..Len(categories) :
        LetterCode(categories[i].code) => MaxPlusOne(categories[i].code)

\* the same, for the letter codes and the stores without the name that repeats
\* the prefix
C18_MaxPlusOneLetterCodes ==
    \A i \in 1..Len(categories) :
        (/\ LetterCode(categories[i].code)
         /\ \A k \in 1..Len(assets) : assets[k].asset_name # RollNames[5].name) =>
            MaxPlusOne(categories[i].code)

\* C19: generateAssetName of the client and get_next_asset_name of the store
\* return the same name for every category code and every set of existing
\* names in which each name under the prefix ends in a purely numeric suffix.
C19_SameComputation ==
    \A i \in 1..Len(categories) :
        Numbered(categories[i].code) = NamesUnder(categories[i].code) =>
            get_next_asset_name(categories[i].code, assets) = Generated(categories[i].code)

\* the same, for the letter codes only
C19_SameLetterCodes ==
    \A i \in 1..Len(categories) :
        (/\ Numbered(categories[i].code) = NamesUnder(categories[i].code)
         /\ LetterCode(categories[i].code)) =>
            get_next_asset_name(categories[i].code, assets) = Generated(categories[i].code)

\* the same, for the letter codes below the fourth digit
C19_SameBelowThousand ==
    \A i \in 1..Len(categories) :
        (/\ Numbered(categories[i].code) = NamesUnder(categories[i].code)
         /\ LetterCode(categories[i].code)
         /\ GreatestSuffix(categories[i].code) < 999) =>
            get_next_asset_name(categories[i].code, assets) = Generated(categories[i].code)

(***************************************************************************)
(* The audit rows and the write they describe.                             *)
(***************************************************************************)
\* the primary write of the save that tab c is in, or was last in, has failed
WriteFailed(c) == ghost[c].outcome \notin {"none", "pending", "ok"}

\* the primary write of the asset save of tab c was applied by the store
AssetWritten(c) ==
    \/ ghost[c].op = "create" /\ ghost[c].assetId # NoId
    \/ ghost[c].op = "update" /\ ghost[c].updates >= 1

AssetAudit(c) ==
    ghost[c].op \in {"create", "update"} =>
        /\ WriteFailed(c) => Len(asset_history) = ghost[c].histBefore
        /\ Len(asset_history) > ghost[c].histBefore => AssetWritten(c)

StaffAudit(c) ==
    ghost[c].op = "staff_update" =>
        /\ WriteFailed(c) => Len(staff_history) = ghost[c].histBefore
        /\ Len(staff_history) > ghost[c].histBefore =>
               /\ ghost[c].outcome = "ok"
               /\ RowById(staff, ghost[c].assetId) = [id |-> ghost[c].assetId] @@ ghost[c].new

\* C20: audit rows follow a successful primary write and never precede or
\* replace it: when the update or the insert of an asset returns an error no
\* asset_history row is written for that save, and when the update of a staff
\* member returns an error no staff_history row is written.
C20_AuditAfterWrite == \A c \in Clients : AssetAudit(c) /\ StaffAudit(c)

\* the update of an asset whose description was changed in the form has failed,
\* and so has the update of a staff member whose location was changed
C20_FailedWrites ==
    /\ ghost[1].op = "update" /\ WriteFailed(1)
    /\ ui[1].showModal /\ ui[1].editingId # NoId
    /\ HasId(assets, ui[1].editingId)
    /\ payloadOf(ui[1].form).description # RowById(assets, ui[1].editingId).description
    /\ ghost[2].op = "staff_update" /\ WriteFailed(2)
    /\ ghost[2].old.location_id # ghost[2].new.location_id
    /\ trim(ghost[2].new.staff_id) # <<>>

\* rows were written after both writes: the asset update and the staff update
C20_WrittenAfterSuccess ==
    /\ ghost[1].op = "update" /\ ghost[1].outcome = "ok"
    /\ Len(asset_history) > ghost[1].histBefore
    /\ ghost[2].op = "staff_update" /\ ghost[2].outcome = "ok"
    /\ Len(staff_history) > ghost[2].histBefore

(***************************************************************************)
(* The inserts of one trackChanges.                                        *)
(***************************************************************************)
\* tab c is in the loop of trackChanges, before the insert of the next change
Tracking(c) == ui[c].pc = "track"

\* the turn of the loop: the row of the change is appended when the insert
\* succeeds, and the loop goes on with the changes that remain in either case
TurnOfLoop(c) ==
    LET ch == Head(ui[c].loc.changes)
        rest == Tail(ui[c].loc.changes)
    IN  /\ ui'[c].pc = IF rest = <<>> THEN "fetch" ELSE "track"
        /\ ui'[c].loc.changes = rest
        /\ ghost'[c].histOk + ghost'[c].histFail = ghost[c].histOk + ghost[c].histFail + 1
        /\ ghost'[c].histOk = ghost[c].histOk + 1 =>
               /\ Len(asset_history') = Len(asset_history) + 1
               /\ asset_history'[Len(asset_history')].field_name = ch.field_name
               /\ asset_history'[Len(asset_history')].asset_id = ghost[c].assetId
        /\ rest = <<>> =>
               /\ ghost'[c].histOk + ghost'[c].histFail
                      = Cardinality(DifferingFields(ghost[c].old, ghost[c].new))
               /\ ghost'[c].histOk = Len(asset_history') - ghost[c].histBefore

\* C21: within one asset update the inserts of the audit rows are independent:
\* when the insert of the row of one changed field fails, the rows of the
\* remaining changed fields are still attempted, and every changed tracked field
\* whose insert succeeds has its row.
C21_IndependentInserts ==
    [][\A c \in Clients : (Tracking(c) /\ ui'[c] # ui[c]) => TurnOfLoop(c)]_vars

\* the insert of the status row failed and the row of the serial number, the
\* change after it, was written
C21_RowAfterFailure ==
    \E c \in Clients :
        /\ Updated(c) /\ ghost[c].histFail = 1 /\ ghost[c].histOk = 1
        /\ DifferingFields(ghost[c].old, ghost[c].new) = {"status", "serial_number"}
        /\ Len(AppendedBy(c)) = 1
        /\ AppendedBy(c)[1].field_name = "serial_number"

(***************************************************************************)
(* The audit row of a change of location.                                  *)
(***************************************************************************)
\* tab c has just saved the edit form of the Staff view
StaffSaved(c) == ghost'[c] # ghost[c] /\ ghost'[c].op = "staff_update"

StaffAppended == SubSeq(staff_history', Len(staff_history) + 1, Len(staff_history'))

LocationRow(c, row) ==
    /\ row.staff_id = ghost'[c].assetId
    /\ row.field_name = "location"
    /\ row.change_type = "update"
    /\ row.old_value = getLocationName(ghost'[c].old.location_id)
    /\ row.new_value = getLocationName(ghost'[c].new.location_id)
    /\ row.effective_date = ghost'[c].date

LocationChanged(g) == g.outcome = "ok" /\ g.old.location_id # g.new.location_id

\* no step but the save of the edit form writes staff_history; the creation of a
\* staff member does not
OnlyEditsTracked ==
    (staff_history' # staff_history) =>
        /\ Len(staff') = Len(staff)
        /\ \E c \in Clients : StaffSaved(c)

BucketsFor(order) ==
    [k \in 1..NumBuckets |->
        monthData([i \in 1..Len(assets) |->
            statusAtMonth(assets[i], inOrder(statusRows, order),
                          monthEnd(monthlyData.at, k))])]

SameAsset(i, j) == statusRows[i].asset_id = statusRows[j].asset_id

\* two rows of an asset bear the same date only when both carry an effective
\* date, which is a day: the record times of two rows are different instants
TiesOnEffectiveDatesOnly ==
    \A i, j \in 1..Len(statusRows) :
        (i # j /\ SameAsset(i, j) /\ changeDate(statusRows[i]) = changeDate(statusRows[j])) =>
            /\ statusRows[i].effective_date # NoDate
            /\ statusRows[j].effective_date # NoDate

NoTies ==
    \A i, j \in 1..Len(statusRows) :
        (i # j /\ SameAsset(i, j)) => changeDate(statusRows[i]) # changeDate(statusRows[j])

\* C23: the bucket counts are a function of the set of assets and the set of
\* status audit rows only: they do not depend on the order in which the store
\* returns the audit rows, also when two status rows of an asset have equal
\* effective dates.
C23_OrderIndependent ==
    (Loaded("effective_date") /\ TiesOnEffectiveDatesOnly) =>
        \A order \in QueryOrders(Len(statusRows)) : BucketsFor(order) = monthlyData.months

\* the same, when no two status rows of an asset bear the same date
C23_OrderIndependentWithoutTies ==
    (Loaded("effective_date") /\ NoTies) =>
        \A order \in QueryOrders(Len(statusRows)) : BucketsFor(order) = monthlyData.months

(***************************************************************************)
(* The status rows of an asset and its status.                             *)
(***************************************************************************)
\* the status rows of the asset in a log, in the order they were recorded
TrailOf(log, id) ==
    SelectRows(log, [i \in 1..Len(log) |->
                        log[i].field_name = "status" /\ log[i].asset_id = id])

\* each row starts from the status the row before it ended in, and the last row
\* ends in the status of the asset
Chained(asset) ==
    LET trail == TrailOf(asset_history, asset.id)
    IN  /\ \A k \in 1..(Len(trail) - 1) : trail[k + 1].old_value = trail[k].new_value
        /\ trail # <<>> => trail[Len(trail)].new_value = VStr(asset.status)

\* a save records the change of the status of an asset in one row, from the
\* status the asset had to the status it has; a new asset has no status row
Recorded(i) ==
    LET before == TrailOf(asset_history, assets[i].id)
        after == TrailOf(asset_history', assets[i].id)
    IN  IF assets'[i].status # assets[i].status
        THEN /\ Len(after) = Len(before) + 1
             /\ after[Len(after)].old_value = VStr(assets[i].status)
             /\ after[Len(after)].new_value = VStr(assets'[i].status)
        ELSE after = before

NewWithoutRows ==
    \A i \in (Len(assets) + 1)..Len(assets') : TrailOf(asset_history', assets'[i].id) = <<>>

EditFormOpen(c) ==
    /\ ui[c].showModal /\ ui[c].editingId # NoId
    /\ ui'[c].showModal /\ ui'[c].editingId = ui[c].editingId

C25_EditFormNameKeptNoLookup ==
    [][/\ \A c \in Clients :
              (EditFormOpen(c) /\ ui[c].pending = {}) =>
                  ui'[c].form.asset_name = ui[c].form.asset_name
       /\ \A i \in 1..Len(assets) :
              (\A c \in Clients : ghost[c].old.id # NoId =>
                  ghost[c].new.asset_name = ghost[c].old.asset_name) =>
                  assets'[i].asset_name = assets[i].asset_name]_vars

\* the name of the asset carries the prefix of the category of the asset
PrefixOfCategory(asset) ==
    /\ HasId(categories, asset.category_id)
    /\ StartsWith(asset.asset_name,
                  assetPrefix(RowById(categories, asset.category_id).code))

\* C26: whenever a new asset is inserted, the asset_name of the payload carries
\* the prefix of the category whose id is in the same payload, for every order
\* in which the lookups of the name complete when the user changes the category
\* several times before submitting.
C26_InsertedNamePrefix ==
    [][\A i \in (Len(assets) + 1)..Len(assets') : PrefixOfCategory(assets'[i])]_vars

(***************************************************************************)
(* The counters of the buckets.                                            *)
(***************************************************************************)
Shown == monthlyData.view # "none"

StatusSum(m) == m["active"] + m["maintenance"] + m["inactive"] + m["disposed"]

\* C27: in every one of the six buckets of fetchMonthlyData each asset is counted
\* at most once and total = active + maintenance + inactive + disposed, for all
\* audit logs written by the application.
C27_TotalIsSum ==
    Shown =>
        /\ Len(monthlyData.months) = NumBuckets
        /\ \A k \in 1..NumBuckets :
               /\ monthlyData.months[k].total = StatusSum(monthlyData.months[k])
               /\ monthlyData.months[k].total <= Len(assets)

\* an asset with two status rows that is skipped in the oldest bucket and
\* counted in maintenance in a later one and as active in the newest
C27_CountedAndSkipped ==
    /\ Loaded("effective_date")
    /\ Len(statusRows) = 2
    /\ monthlyData.months[1].total = 0
    /\ \E k \in 1..NumBuckets : monthlyData.months[k].maintenance = 1
    /\ monthlyData.months[NumBuckets].active = 1

\* C28: the totals of the buckets are non-decreasing from the oldest bucket to
\* the newest: an asset counted in one bucket is counted in every later bucket
\* of the same computation.
C28_TotalsNonDecreasing ==
    Shown =>
        \A k \in 1..(NumBuckets - 1) :
            monthlyData.months[k].total <= monthlyData.months[k + 1].total

\* the asset is first counted in a bucket after the oldest, through a status row
\* dated before its creation
C28_CountedFromBackdatedRow ==
    /\ Loaded("effective_date")
    /\ monthlyData.months[1].total = 0
    /\ monthlyData.months[NumBuckets].total = 1
    /\ \E k \in 1..NumBuckets :
           /\ monthlyData.months[k].total = 1
           /\ assets[1].created_at > monthEnd(monthlyData.at, k)

\* the step in which a save of the asset form, its request made, comes to its end
SaveEnds(c) == ui[c].pc # "idle" /\ ui'[c].pc = "idle"

\* the insert or the update of that save was carried out by the store
PrimaryWritten(c) == ghost'[c].assetId # NoId

AssetSaveOutcome(c) ==
    SaveEnds(c) =>
        /\ ~ui'[c].saving
        /\ PrimaryWritten(c) <=> (~ui'[c].showModal /\ ui'[c].formError = "")
        /\ ~PrimaryWritten(c) =>
               /\ ui'[c].showModal
               /\ ui'[c].editingId = ui[c].editingId
               /\ ui'[c].formError # ""

\* a step of a handler of the Staff, Categories, Licenses or Locations view
HandlerRan(c) == ui' = ui /\ other'[c].view # "none"

OtherWritten(c) ==
    \/ <<staff, categories, licenses, locations>>' # <<staff, categories, licenses, locations>>
    \/ other'[c].view = "staff_edit" /\ ghost'[c].outcome = "ok"

OtherSaveOutcome(c) ==
    HandlerRan(c) =>
        /\ ~other'[c].saving
        /\ OtherWritten(c) <=> (~other'[c].showModal /\ other'[c].formError = "")
        /\ ~OtherWritten(c) => other'[c].showModal /\ other'[c].formError # ""

C29_LocationSaved ==
    /\ other[2].view = "locations"
    /\ Len(locations) > Len(seedLocations)
    /\ ~other[2].showModal /\ other[2].formError = ""

\* the asset form lacks a required field
AssetFormBlank(c) ==
    trim(ui[c].form.asset_name) = <<>> \/ ui[c].form.category_id = NoId

AssetValidationMessages == {"Asset name is required", "Category is required"}
StaffValidationMessages == {"Name is required", "Staff ID is required"}

\* the handler has returned from its validation: the message is shown in the
\* open modal, no request is in flight and the store is as it was
Blocked(view, messages) ==
    /\ view.formError \in messages
    /\ view.showModal
    /\ ~view.saving
    /\ UNCHANGED storeVars

AssetSaveBlocked(c) ==
    /\ (AssetFormBlank(c) /\ saveAsset(c)) =>
           Blocked(ui'[c], AssetValidationMessages) /\ ui'[c].pc = "idle"
    /\ (AssetFormBlank(c) /\ Idle(c) /\ ui[c].showModal) => UNCHANGED storeVars

StaffSaveBlocked(c) ==
    \A name \in SaveNames, staffId \in SaveStaffIds, reached \in BOOLEAN :
        /\ ((trim(name) = <<>> \/ trim(staffId) = <<>>)
                /\ saveStaff(c, name, staffId, reached)) =>
               Blocked(other'[c], StaffValidationMessages)
        /\ \A locationId \in {NoId, 1}, date \in {NoDate, today(now)}, inserted \in BOOLEAN :
               (trim(staffId) = <<>>
                   /\ updateStaff(c, 1, staffId, locationId, date, reached, userOf(c),
                                  inserted)) =>
                   Blocked(other'[c], StaffValidationMessages)

\* C30: saveAsset on a form with a blank asset name or without a category, and
\* saveStaff with a blank name or staff id, set formError, write nothing to the
\* store (no insert, no update, no audit row), leave saving false and the modal
\* open.
C30_ValidationBlocksWrite ==
    [][\A c \in Clients : AssetSaveBlocked(c) /\ StaffSaveBlocked(c)]_vars

\* a named asset whose category was taken away again, submitted
C30_CategoryRequired ==
    /\ ui[1].formError = "Category is required"
    /\ trim(ui[1].form.asset_name) # <<>>
    /\ ui[1].showModal /\ ~ui[1].saving
    /\ assets = <<seedAsset(<<"X">>, NoId), otherAsset>>
    /\ asset_history = <<>>

\* a staff member without a staff id, submitted
C30_StaffIdRequired ==
    /\ other[2].view = "staff"
    /\ other[2].formError = "Staff ID is required"
    /\ other[2].showModal
    /\ staff = seedStaff /\ staff_history = <<>>

====
